---- MODULE Spec2Model ----
(***************************************************************************)
(* A model of the API gateway's request-forwarding pipeline:               *)
(*   - the HTTP path: Router.handleHTTP, the circuit breaker               *)
(*     (sony/gobreaker as configured by NewCircuitBreaker), the            *)
(*     retrier (eapache/go-resiliency as configured by NewRetrier), the   *)
(*     HTTPProxy.Forward and the TTL cache it consults;                    *)
(*   - the cache on its own, with its sweeper goroutine;                   *)
(*   - the path rewriting of RegisterService and Forward;                  *)
(*   - the two frame pumps of WebSocketProxy.ProxyWebSocket.               *)
(* Times are whole seconds.  The zero time.Time is written NoTime.         *)
(***************************************************************************)
EXTENDS Integers, Sequences, FiniteSets, TLC

VARIABLES
    cfg,        \* the immutable config.Config the gateway was built with
    now,        \* the wall clock, in seconds
    cb,         \* the gobreaker.CircuitBreaker inside resilience.CircuitBreaker
    items,      \* Cache.items of the HTTP forwarder's cache
    req,        \* the in-flight HTTP requests, one handler goroutine per slot
    nreq,       \* how many requests have arrived so far
    last,       \* the request the last step finished, if it finished one (history)
    streak,     \* how many requests in a row just received an upstream 5xx (history)
    seen200,    \* per cache key, the latest upstream 200 to a GET (history)
    origin,     \* per cache key, the method and upstream status of the request
                \* whose response Forward stored last (history)
    lim         \* the run's bounds: requests in all, and requests in flight

VARIABLES
    svc,        \* the config.ServiceConfig of the service being dispatched to
    inbound,    \* the path of the request the Router received
    outbound    \* the path of the request sent upstream, once it is sent

VARIABLES
    defaultExpiration,  \* Cache.defaultExpiration (and cleanupInterval), seconds
    setting,    \* the calls of Cache.Set between their clock reading and the lock
    cleanup,    \* the sweeper goroutine: waiting, inside deleteExpired, or stopped
    written,    \* per key, the last Set that wrote it and was not deleted (history)
    got         \* the Get the last step performed, if it was a Get (history)

VARIABLES
    wsMain,     \* where ProxyWebSocket is, the frame it holds and what it returned
    pump,       \* the two forwarding goroutines: where each is and the frame it holds
    errChan,    \* the buffered channel errChan (capacity 2)
    done,       \* whether the channel done is closed
    closed,     \* which of the two sockets are closed
    readLog,    \* per direction, the frames ReadMessage returned (history)
    writeLog,   \* per direction, the frames WriteMessage wrote (history)
    firstErr,   \* whether a pump has reported an error (history)
    readsAfterErr,  \* per pump, the reads it completed since firstErr (history)
    readsAfterDone  \* per pump, the reads it completed since done closed (history)

VARIABLES
    reqHeader,  \* the X-Request-ID header of the inbound request ("" when absent)
    respHeader, \* the X-Request-ID header of the response to the client
    outHeader,  \* the X-Request-ID header of the outbound request, once built
    ridPc,      \* how far the request has got through the middleware and Forward
    ridEnv      \* what the surroundings supply: the generated id, the service's
                \* configured header, the upstream's response header

gwVars == <<cfg, now, cb, items, req, nreq, last, streak, seen200, origin, lim>>
pathVars == <<svc, inbound, outbound>>
cacheVars == <<defaultExpiration, setting, cleanup, written, got>>
wsVars == <<wsMain, pump, errChan, done, closed, readLog, writeLog, firstErr,
           readsAfterErr, readsAfterDone>>
VARIABLES
    tunnel      \* the WebSocket route's request: the service, the path the client
                \* opened, the path ProxyWebSocket dials, and how the upstream behaves

VARIABLES
    fwd,        \* the latest call of HTTPProxy.Forward: its request, what the
                \* origin did, what Forward returned and wrote, the cache before
    nfwd,       \* how many calls of Forward there have been
    calls,      \* the calls of CircuitBreaker.Execute in flight and their generation
    ncalls,     \* how many calls of Execute there have been
    ev,         \* the breaker's latest operation: its states before and after (history)
    openedAt    \* when the breaker last became Open (history)

hdrVars == <<reqHeader, respHeader, outHeader, ridPc, ridEnv>>
tunVars == <<tunnel>>
brkVars == <<calls, ncalls, ev, openedAt>>
VARIABLES
    routes,     \* the fiber app's route stack, in registration order
    routed      \* the latest request the app dispatched and the handler that
                \* took it (history)

VARIABLES
    sec,        \* config.SecurityConfig: which of the two checks are enabled
    served      \* the latest request through the middleware chain: what it
                \* carried, the status the client got, which handler ran (history)

VARIABLES
    asked,      \* the duration each SetWithExpiration in progress was called
                \* with, and per key the duration of the last write (history)
    swept,      \* the latest run of deleteExpired: its clock reading, the time
                \* it got the lock, the items before and after (history)
    closer      \* the callers of Cache.Close: not yet calling, blocked on the
                \* send to stopCleanup, or returned

VARIABLES
    dial        \* the latest WebSocket request the Router dispatched: the
                \* service, the client's request, and the URL, the headers and
                \* the subprotocols ProxyWebSocket dialled with (history)

VARIABLES
    rl,         \* the RateLimiter's fixed fields (max, window) and the clock it reads
    ips,        \* RateLimiter.ips: per client IP the count and the expiration
    limited,    \* the latest request through RateLimit: its IP, the status the
                \* client got, the map before it (history)
    windows     \* per client IP the window its latest request fell in: when it
                \* expires, how many requests it has seen and admitted (history)

VARIABLES
    tmo         \* one call of Timeout.Execute: the duration, the clock, where the
                \* caller and the goroutine running fn are, the channel done, and
                \* what was returned (with history)

VARIABLES
    gate        \* the Router with its services: the breakers by owner, the calls
                \* of handleHTTP inside the breaker, the clock, and the latest
                \* request dispatched (history)

fwdVars == <<fwd, nfwd>>
regVars == <<routes, routed>>
authVars == <<sec, served>>
ttlVars == <<asked, swept, closer>>
dialVars == <<dial>>
rateVars == <<rl, ips, limited, windows>>
tmoVars == <<tmo>>
gateVars == <<gate>>
guardVars == <<rateVars, tmoVars, gateVars>>
lateVars == <<regVars, authVars, ttlVars, dialVars, guardVars>>
notReg == <<authVars, ttlVars, dialVars, guardVars>>
notAuth == <<regVars, ttlVars, dialVars, guardVars>>
notTTL == <<regVars, authVars, dialVars, guardVars>>
notDial == <<regVars, authVars, ttlVars, guardVars>>
fourVars == <<regVars, authVars, ttlVars, dialVars>>
notRate == <<fourVars, tmoVars, gateVars>>
notTmo == <<fourVars, rateVars, gateVars>>
notGate == <<fourVars, rateVars, tmoVars>>
moreVars == <<hdrVars, tunVars, brkVars, fwdVars, lateVars>>
nonGwVars == <<pathVars, cacheVars, wsVars, moreVars>>
vars == <<gwVars, nonGwVars>>

----------------------------------------------------------------------------
(* Bounds of the model *)

MaxReqs == 3
MaxInFlight == 1
MaxTime == 2
MaxReqsS3 == 5

MaxSlots == 2

Slots == 1 .. MaxSlots

----------------------------------------------------------------------------
(* Program constants *)

NoTime == -1
StatusOK == 200
StatusNotFound == 404
StatusInternalServerError == 500
StatusBadGateway == 502
StatusServiceUnavailable == 503
DefaultBreakerTimeout == 60

----------------------------------------------------------------------------
(* gobreaker: Counts and the generation/state machine *)

ZeroCounts ==
    [requests |-> 0, totalSuccesses |-> 0, totalFailures |-> 0,
     consecutiveSuccesses |-> 0, consecutiveFailures |-> 0]

\* Settings.MaxRequests: uint32(FailureThreshold), and gobreaker's default of 1 for 0.
BreakerMaxRequests(c) ==
    IF c.failureThreshold = 0 THEN 1 ELSE c.failureThreshold

\* Settings.Timeout: ResetTimeout seconds, and gobreaker's default of 60 s for <= 0.
BreakerTimeout(c) ==
    IF c.resetTimeout <= 0 THEN DefaultBreakerTimeout ELSE c.resetTimeout

\* Settings.ReadyToTrip: failures/requests >= 0.5 and requests >= FailureThreshold.
ReadyToTrip(c, counts) ==
    /\ counts.requests >= c.failureThreshold
    /\ 2 * counts.totalFailures >= counts.requests

\* gobreaker.NewCircuitBreaker: Closed, generation 0, Interval 0 so no expiry.
NewCircuitBreaker ==
    [state |-> "closed", generation |-> 0, counts |-> ZeroCounts, expiry |-> NoTime]

\* toNewGeneration: the counts are cleared, the expiry is set from the new state.
ToNewGeneration(b, c, t) ==
    [b EXCEPT !.generation = @ + 1,
              !.counts = ZeroCounts,
              !.expiry = IF b.state = "open" THEN t + BreakerTimeout(c) ELSE NoTime]

\* setState: no-op on the same state, else the new state in a new generation.
SetState(b, c, state, t) ==
    IF b.state = state THEN b
    ELSE ToNewGeneration([b EXCEPT !.state = state], c, t)

\* currentState: an Open breaker whose expiry is before now becomes HalfOpen.
\* (A Closed breaker has no expiry here: Interval is 0.)
CurrentState(b, c, t) ==
    IF b.state = "open" /\ b.expiry < t THEN SetState(b, c, "half-open", t) ELSE b

\* A beforeRequest that forgets the Open check.
BeforeRequestAdmitsOpen(b, c, t) ==
    LET s == CurrentState(b, c, t) IN
    IF s.state = "half-open" /\ s.counts.requests >= BreakerMaxRequests(c)
    THEN [cb |-> s, err |-> "ErrTooManyRequests", generation |-> s.generation]
    ELSE [cb |-> [s EXCEPT !.counts.requests = @ + 1],
          err |-> "nil", generation |-> s.generation]

\* beforeRequest: refuse when Open, or when HalfOpen with MaxRequests admitted;
\* otherwise count the request.
BeforeRequest(b, c, t) ==
    LET s == CurrentState(b, c, t) IN
    IF s.state = "open"
    THEN [cb |-> s, err |-> "ErrOpenState", generation |-> s.generation]
    ELSE IF s.state = "half-open" /\ s.counts.requests >= BreakerMaxRequests(c)
    THEN [cb |-> s, err |-> "ErrTooManyRequests", generation |-> s.generation]
    ELSE [cb |-> [s EXCEPT !.counts.requests = @ + 1],
          err |-> "nil", generation |-> s.generation]

\* An onSuccess that records nothing.
OnSuccessUncounted(b, c, t) == b

\* Counts.onSuccess and CircuitBreaker.onSuccess
OnSuccess(b, c, t) ==
    LET n == [b EXCEPT !.counts.totalSuccesses = @ + 1,
                       !.counts.consecutiveSuccesses = @ + 1,
                       !.counts.consecutiveFailures = 0] IN
    CASE b.state = "closed" -> n
      [] b.state = "half-open" ->
            IF n.counts.consecutiveSuccesses >= BreakerMaxRequests(c)
            THEN SetState(n, c, "closed", t) ELSE n
      [] OTHER -> b

\* An onFailure that leaves a HalfOpen breaker as it is.
OnFailureKeepsHalfOpen(b, c, t) ==
    LET n == [b EXCEPT !.counts.totalFailures = @ + 1,
                       !.counts.consecutiveFailures = @ + 1,
                       !.counts.consecutiveSuccesses = 0] IN
    CASE b.state = "closed" ->
            IF ReadyToTrip(c, n.counts) THEN SetState(n, c, "open", t) ELSE n
      [] b.state = "half-open" -> n
      [] OTHER -> b

\* Counts.onFailure and CircuitBreaker.onFailure
OnFailure(b, c, t) ==
    LET n == [b EXCEPT !.counts.totalFailures = @ + 1,
                       !.counts.consecutiveFailures = @ + 1,
                       !.counts.consecutiveSuccesses = 0] IN
    CASE b.state = "closed" ->
            IF ReadyToTrip(c, n.counts) THEN SetState(n, c, "open", t) ELSE n
      [] b.state = "half-open" -> SetState(b, c, "open", t)
      [] OTHER -> b

\* An afterRequest that counts every result as a failure.
AfterRequestCountsFailure(b, c, before, success, t) ==
    LET s == CurrentState(b, c, t) IN
    IF s.generation # before THEN s ELSE OnFailure(s, c, t)

\* afterRequest: a result of an older generation is dropped.
AfterRequest(b, c, before, success, t) ==
    LET s == CurrentState(b, c, t) IN
    IF s.generation # before THEN s
    ELSE IF success THEN OnSuccess(s, c, t) ELSE OnFailure(s, c, t)

\* CircuitBreaker.State(): the state after currentState(now).
State(b, c, t) == CurrentState(b, c, t).state

\* CircuitBreaker.Execute's mapping of gobreaker's own errors: only ErrOpenState
\* becomes fiber's 503; any other error is returned as it is, and fiber's default
\* ErrorHandler answers a plain error with 500.
BreakerErrorStatus(err) ==
    IF err = "ErrOpenState" THEN StatusServiceUnavailable
    ELSE StatusInternalServerError

----------------------------------------------------------------------------
(* pkg/cache: the operations on Cache.items.  An absent key has present = FALSE. *)

NoItem == [present |-> FALSE, value |-> "nil", expiration |-> 0]

\* A SetWithExpiration for which a negative duration means the default too.
ExpirationOfNegativeIsDefault(ttl, duration, t) ==
    LET d == IF duration <= 0 THEN ttl ELSE duration
    IN IF d > 0 THEN t + d ELSE 0

\* Cache.SetWithExpiration(key, value, duration) at clock reading t: duration 0
\* means the default, and only a positive duration gives an expiry time.
ExpirationOf(ttl, duration, t) ==
    LET d == IF duration = 0 THEN ttl ELSE duration
    IN IF d > 0 THEN t + d ELSE 0

SetWithExpiration(it, ttl, key, value, duration, t) ==
    [it EXCEPT ![key] = [present |-> TRUE, value |-> value,
                         expiration |-> ExpirationOf(ttl, duration, t)]]

\* Cache.Set(key, value): SetWithExpiration with the default expiration.
Set(it, ttl, key, value, t) == SetWithExpiration(it, ttl, key, value, ttl, t)

\* A Get whose expiry comparison is the wrong way round.
GetExpiryFlipped(it, key, t) ==
    IF ~it[key].present THEN [value |-> "nil", found |-> FALSE]
    ELSE IF it[key].expiration > 0 /\ t < it[key].expiration
    THEN [value |-> "nil", found |-> FALSE]
    ELSE [value |-> it[key].value, found |-> TRUE]

\* Cache.Get(key): a miss when absent, or when an expiry is set and now is past it.
Get(it, key, t) ==
    IF ~it[key].present THEN [value |-> "nil", found |-> FALSE]
    ELSE IF it[key].expiration > 0 /\ t > it[key].expiration
    THEN [value |-> "nil", found |-> FALSE]
    ELSE [value |-> it[key].value, found |-> TRUE]

\* A sweep that takes an entry's having an expiry for its having expired.
DeleteExpiredUnchecked(it, t) ==
    [k \in DOMAIN it |->
        IF it[k].present /\ it[k].expiration > 0 THEN NoItem ELSE it[k]]

\* A sweep that removes an entry from the moment of its expiry time on.
DeleteExpiredAtExpiry(it, t) ==
    [k \in DOMAIN it |->
        IF it[k].present /\ it[k].expiration > 0 /\ t >= it[k].expiration
        THEN NoItem ELSE it[k]]

\* Cache.deleteExpired with clock reading t.
DeleteExpired(it, t) ==
    [k \in DOMAIN it |->
        IF it[k].present /\ it[k].expiration > 0 /\ t > it[k].expiration
        THEN NoItem ELSE it[k]]

----------------------------------------------------------------------------
(* The inbound requests and the upstream's answers the model draws from *)

Paths == {"/a/x"}
Queries == {"q=1"}
Bodies == {"b1", "b2"}

\* A cache key that leaves the query out.
getCacheKeyPathOnly(path, query) == <<path>>

\* getCacheKey(path, query): path?query, or the path alone for an empty query.
getCacheKey(path, query) ==
    IF query # "" THEN <<path, "?", query>> ELSE <<path>>

CacheKeys == {getCacheKey(p, q) : p \in Paths, q \in Queries}

\* A request: its method, path, raw query, and Upgrade and Connection headers.
Kinds ==
    {k \in [method : {"GET", "POST"}, path : Paths, query : Queries,
            upgrade : {"", "websocket"}, connection : {"", "Upgrade"}] :
        /\ k.upgrade = "" => k.connection = ""
        /\ k.upgrade # "" => k.method = "GET"}

NoKind == [method |-> "", path |-> "", query |-> "", upgrade |-> "", connection |-> ""]

\* What client.Do and io.ReadAll can give: a response that was read in full, a
\* transport error or timeout, or a response whose body could not be read.
Outcomes ==
    {[t |-> "resp", status |-> StatusOK, body |-> b] : b \in Bodies}
    \cup {[t |-> "resp", status |-> s, body |-> "b1"] :
            s \in {201, StatusInternalServerError}}
    \cup {[t |-> "transport", status |-> 0, body |-> "nil"],
          [t |-> "readfail", status |-> 0, body |-> "nil"]}

\* websocket.IsWebSocketUpgrade: Connection holds the token upgrade and Upgrade
\* holds the token websocket.
IsWebSocketUpgrade(k) == k.connection = "Upgrade" /\ k.upgrade = "websocket"

----------------------------------------------------------------------------
(* The configurations the gateway is built with *)

NoBreaker == [enableCB |-> FALSE, failureThreshold |-> 0, resetTimeout |-> 0]
NoRetry == [enableRetry |-> FALSE, maxRetries |-> 0]

Config(b, r, c) ==
    [enableCB |-> b.enableCB, failureThreshold |-> b.failureThreshold,
     resetTimeout |-> b.resetTimeout, enableRetry |-> r.enableRetry,
     maxRetries |-> r.maxRetries, enableCache |-> c.enableCache,
     cacheTTL |-> c.cacheTTL]

BreakerConfigs ==
    {NoBreaker, [enableCB |-> TRUE, failureThreshold |-> 2, resetTimeout |-> 1]}

RetryConfigs ==
    {NoRetry} \cup {[enableRetry |-> TRUE, maxRetries |-> n] : n \in {0, 2}}

CacheConfigs ==
    {[enableCache |-> FALSE, cacheTTL |-> 1], [enableCache |-> TRUE, cacheTTL |-> 1]}

Configs ==
    {Config(b, r, c) : b \in BreakerConfigs, r \in RetryConfigs, c \in CacheConfigs}

\* Scenario S3 of the specification: failure_threshold 4, reset_timeout 30.
ConfigS3 ==
    Config([enableCB |-> TRUE, failureThreshold |-> 4, resetTimeout |-> 30],
           [enableRetry |-> TRUE, maxRetries |-> 1],
           [enableCache |-> TRUE, cacheTTL |-> 1])


----------------------------------------------------------------------------
(* The HTTP path: Router.handleHTTP, Retrier.Execute, HTTPProxy.Forward *)

NoPrior == [valid |-> FALSE, body |-> "nil", at |-> 0]

\* For a GET without Upgrade: websocket, the latest upstream 200 to a GET for
\* its key, if it arrives within the TTL of that response.
PriorOf(k) ==
    LET p == seen200[getCacheKey(k.path, k.query)] IN
    IF k.method = "GET" /\ k.upgrade = "" /\ p.valid /\ now < p.at + cfg.cacheTTL
    THEN p ELSE NoPrior

\* A handler goroutine's slot.  pc: idle; upstream (inside client.Do); backoff
\* (inside the retrier's sleep).  The fields after retries are history: the
\* breaker state beforeRequest saw, the calls of Forward and how many returned an
\* error, the requests sent upstream, whether the cache was used, and what the
\* history said when the request arrived (the latest upstream 200 for its key,
\* and whether failure_threshold requests in a row had just received a 5xx).
\* reply is what the upstream answered to the call of Forward that has just
\* returned (history).
NoReply == [t |-> "none", status |-> 0, body |-> "nil"]

\* For a chain under breaker and retrier: the generation beforeRequest gave it
\* and the breaker as afterRequest found it (history).
NoPre == [generation |-> 0, cb |-> NewCircuitBreaker]

IdleReq ==
    [pc |-> "idle", kind |-> NoKind, generation |-> 0, retries |-> 0,
     cbSeen |-> "none", attempts |-> 0, fails |-> 0, upstreamCalls |-> 0,
     touched |-> FALSE, prior |-> NoPrior, afterRun |-> FALSE,
     reply |-> NoReply, cbPre |-> NoPre, runErr |-> 0]

\* No request finished in the last step.
NoLast ==
    [n |-> 0, kind |-> NoKind, cbSeen |-> "none", attempts |-> 0, fails |-> 0,
     upstreamCalls |-> 0, touched |-> FALSE, prior |-> NoPrior, afterRun |-> FALSE,
     err |-> 0, status |-> 0, body |-> "nil", wrote |-> FALSE,
     hit |-> FALSE, refused |-> FALSE, reply |-> NoReply, cbPre |-> NoPre,
     runErr |-> 0]

\* A Forward without its Upgrade check.
ForwardEnterNoUpgradeCheck(c, it, k, t) ==
    IF c.enableCache /\ k.method = "GET"
    THEN LET g == Get(it, getCacheKey(k.path, k.query), t) IN
         IF g.found
         THEN [done |-> TRUE, err |-> 0, status |-> StatusOK, body |-> g.value,
               wrote |-> TRUE, hit |-> TRUE, touched |-> TRUE]
         ELSE [done |-> FALSE, err |-> 0, status |-> 0, body |-> "nil",
               wrote |-> FALSE, hit |-> FALSE, touched |-> TRUE]
    ELSE [done |-> FALSE, err |-> 0, status |-> 0, body |-> "nil",
          wrote |-> FALSE, hit |-> FALSE, touched |-> FALSE]

\* HTTPProxy.Forward up to client.Do: a request with Upgrade: websocket yields to
\* the next handler (none is left, c.Next() gives fiber's 404); a GET found in
\* the cache is sent from it; any other request goes to the upstream.
\* done: Forward has returned; err: what it returned (0 is nil).
ForwardEnter(c, it, k, t) ==
    IF k.upgrade = "websocket"
    THEN [done |-> TRUE, err |-> StatusNotFound, status |-> 0, body |-> "nil",
          wrote |-> FALSE, hit |-> FALSE, touched |-> FALSE]
    ELSE IF c.enableCache /\ k.method = "GET"
    THEN LET g == Get(it, getCacheKey(k.path, k.query), t) IN
         IF g.found
         THEN [done |-> TRUE, err |-> 0, status |-> StatusOK, body |-> g.value,
               wrote |-> TRUE, hit |-> TRUE, touched |-> TRUE]
         ELSE [done |-> FALSE, err |-> 0, status |-> 0, body |-> "nil",
               wrote |-> FALSE, hit |-> FALSE, touched |-> TRUE]
    ELSE [done |-> FALSE, err |-> 0, status |-> 0, body |-> "nil",
          wrote |-> FALSE, hit |-> FALSE, touched |-> FALSE]

\* A caching condition that forgets the status.
ShouldCacheAnyStatus(c, k, o) ==
    c.enableCache /\ k.method = "GET"

\* Forward's condition for caching the response it has read.
ShouldCache(c, k, o) ==
    c.enableCache /\ k.method = "GET" /\ o.status = StatusOK

\* A Forward that returns an error for an upstream response of status 5xx.
ForwardFinishFailsOn5xx(c, it, k, o, t) ==
    IF o.t # "resp" \/ o.status >= StatusInternalServerError
    THEN [err |-> IF o.t = "transport" THEN StatusBadGateway
                  ELSE StatusInternalServerError,
          status |-> 0, body |-> "nil", wrote |-> FALSE,
          items |-> it, cached |-> FALSE]
    ELSE [err |-> 0, status |-> o.status, body |-> o.body, wrote |-> TRUE,
          items |-> IF ShouldCache(c, k, o)
                    THEN Set(it, c.cacheTTL, getCacheKey(k.path, k.query), o.body, t)
                    ELSE it,
          cached |-> ShouldCache(c, k, o)]

\* HTTPProxy.Forward from client.Do on: a transport error is 502, a body that
\* cannot be read is 500; a response read in full is cached when ShouldCache,
\* then relayed, and Forward returns nil.
ForwardFinish(c, it, k, o, t) ==
    IF o.t = "transport"
    THEN [err |-> StatusBadGateway, status |-> 0, body |-> "nil", wrote |-> FALSE,
          items |-> it, cached |-> FALSE]
    ELSE IF o.t = "readfail"
    THEN [err |-> StatusInternalServerError, status |-> 0, body |-> "nil",
          wrote |-> FALSE, items |-> it, cached |-> FALSE]
    ELSE [err |-> 0, status |-> o.status, body |-> o.body, wrote |-> TRUE,
          items |-> IF ShouldCache(c, k, o)
                    THEN Set(it, c.cacheTTL, getCacheKey(k.path, k.query), o.body, t)
                    ELSE it,
          cached |-> ShouldCache(c, k, o)]

\* A retry loop that goes round once more.
ShouldRetryOnceMore(c, retries, err) ==
    c.enableRetry /\ err # 0 /\ retries <= c.maxRetries

\* A retrier whose classifier retries a 502 only.
ShouldRetryClassifies(c, retries, err) ==
    c.enableRetry /\ err = StatusBadGateway /\ retries < c.maxRetries

\* retrier.Run with the default classifier and ExponentialBackoff(MaxRetries, _):
\* a non-nil error is retried while retries < len(backoff).
ShouldRetry(c, retries, err) ==
    c.enableRetry /\ err # 0 /\ retries < c.maxRetries

\* The record kept of a finished request: what the client was answered (fiber's
\* ErrorHandler answers a returned error with its status).
Finished(rq, err, status, body, wrote, hit, refused) ==
    [n |-> 1, kind |-> rq.kind, cbSeen |-> rq.cbSeen, attempts |-> rq.attempts,
     fails |-> rq.fails, upstreamCalls |-> rq.upstreamCalls, touched |-> rq.touched,
     prior |-> rq.prior, afterRun |-> rq.afterRun,
     err |-> err, status |-> IF err # 0 THEN err ELSE status,
     body |-> IF err # 0 THEN "error" ELSE body,
     wrote |-> wrote, hit |-> hit, refused |-> refused, reply |-> rq.reply,
     cbPre |-> rq.cbPre, runErr |-> rq.runErr]

\* A Retrier.Execute that returns lastErr whatever Run returned.
RetrierResultStale(runErr, lastErr) == lastErr

\* What Retrier.Execute returns: lastErr when Run returned an error, else nil.
RetrierResult(runErr, lastErr) == IF runErr # 0 THEN lastErr ELSE 0

\* Execute's lastErr when Run has returned: the error of the attempt that has
\* just failed, or else that of an earlier attempt if one failed. Execute reads
\* it only in the first case; for the second the model keeps that it is set,
\* not which error it is.
LastErr(fails, err) ==
    IF err # 0 THEN err
    ELSE IF fails > 0 THEN StatusBadGateway ELSE 0

\* One return of Forward (err, and what it wrote) inside the wrappers of
\* handleHTTP: the retrier sleeps and calls again, or the call chain returns,
\* the breaker (b: as beforeRequest left it) records the final outcome and the
\* handler ends.
AfterForward(s, rq, b, err, status, body, wrote, hit) ==
    LET r2 == [rq EXCEPT !.fails = IF err # 0 THEN @ + 1 ELSE @]
        ret == IF cfg.enableRetry THEN RetrierResult(err, LastErr(r2.fails, err))
               ELSE err
    IN
    IF ShouldRetry(cfg, r2.retries, err)
    THEN /\ req' = [req EXCEPT ![s] = [r2 EXCEPT !.pc = "backoff", !.retries = @ + 1,
                                                 !.reply = NoReply]]
         /\ cb' = b
         /\ last' = NoLast
         /\ UNCHANGED streak
    ELSE /\ req' = [req EXCEPT ![s] = IdleReq]
         /\ cb' = IF cfg.enableCB
                  THEN AfterRequest(b, cfg, r2.generation, ret = 0, now)
                  ELSE b
         /\ last' = Finished([r2 EXCEPT !.cbPre =
                                  IF cfg.enableCB /\ cfg.enableRetry
                                  THEN [generation |-> r2.generation,
                                        cb |-> CurrentState(b, cfg, now)]
                                  ELSE @,
                                !.runErr = err],
                              ret, status, body, wrote, hit, FALSE)
         /\ streak' = IF ret = 0 /\ ~hit /\ status >= StatusInternalServerError
                      THEN streak + 1 ELSE 0

\* A request arrives at the service's HTTP route (RegisterService's app.All
\* handler): a WebSocket upgrade is passed on; otherwise handleHTTP runs it
\* through the breaker (if enabled) and makes the first call of Forward.
Arrive(s, k) ==
    /\ nreq < lim.reqs
    /\ s <= lim.inflight
    /\ req[s].pc = "idle"
    /\ \A u \in Slots : u < s => req[u].pc # "idle"
    /\ nreq' = nreq + 1
    /\ UNCHANGED <<cfg, now, items, seen200, origin, lim>>
    /\ UNCHANGED nonGwVars
    /\ LET rq == [IdleReq EXCEPT !.kind = k, !.prior = PriorOf(k),
                                 !.afterRun = cfg.enableCB /\ streak >= cfg.failureThreshold]
       IN
       IF IsWebSocketUpgrade(k)
       THEN /\ last' = Finished(rq, StatusNotFound, 0, "nil", FALSE, FALSE, FALSE)
            /\ UNCHANGED <<cb, req, streak>>
       ELSE
       LET bq == IF cfg.enableCB THEN BeforeRequest(cb, cfg, now)
                 ELSE [cb |-> cb, err |-> "nil", generation |-> 0]
           seen == IF cfg.enableCB THEN bq.cb.state ELSE "none"
       IN
       IF bq.err # "nil"
       THEN /\ last' = Finished([rq EXCEPT !.cbSeen = seen],
                                BreakerErrorStatus(bq.err), 0, "nil", FALSE, FALSE, TRUE)
            /\ cb' = bq.cb
            /\ streak' = 0
            /\ UNCHANGED req
       ELSE
       LET f == ForwardEnter(cfg, items, k, now)
           r1 == [rq EXCEPT !.cbSeen = seen, !.generation = bq.generation,
                            !.attempts = 1, !.touched = f.touched,
                            !.upstreamCalls = IF f.done THEN 0 ELSE 1]
       IN
       IF f.done
       THEN AfterForward(s, r1, bq.cb, f.err, f.status, f.body, f.wrote, f.hit)
       ELSE /\ req' = [req EXCEPT ![s] = [r1 EXCEPT !.pc = "upstream"]]
            /\ cb' = bq.cb
            /\ last' = NoLast
            /\ UNCHANGED streak

\* client.Do returns (or fails) and Forward runs to its end.
UpstreamReply(s, o) ==
    /\ req[s].pc = "upstream"
    /\ LET rq == req[s]
           f == ForwardFinish(cfg, items, rq.kind, o, now)
           key == getCacheKey(rq.kind.path, rq.kind.query)
       IN /\ items' = f.items
          /\ seen200' = IF cfg.enableCache /\ rq.kind.method = "GET"
                           /\ o.t = "resp" /\ o.status = StatusOK
                        THEN [seen200 EXCEPT ![key] =
                                [valid |-> TRUE, body |-> o.body, at |-> now]]
                        ELSE seen200
          /\ origin' = IF f.cached
                       THEN [origin EXCEPT ![key] =
                               [method |-> rq.kind.method, status |-> o.status]]
                       ELSE origin
          /\ AfterForward(s, [rq EXCEPT !.touched = @ \/ f.cached, !.reply = o], cb,
                          f.err, f.status, f.body, f.wrote, FALSE)
    /\ UNCHANGED <<cfg, now, nreq, lim>>
    /\ UNCHANGED nonGwVars

\* The retrier's sleep is over: it calls Forward again.
RetryAttempt(s) ==
    /\ req[s].pc = "backoff"
    /\ LET rq == req[s]
           f == ForwardEnter(cfg, items, rq.kind, now)
           r1 == [rq EXCEPT !.attempts = @ + 1, !.touched = @ \/ f.touched,
                            !.upstreamCalls = IF f.done THEN @ ELSE @ + 1]
       IN
       IF f.done
       THEN AfterForward(s, r1, cb, f.err, f.status, f.body, f.wrote, f.hit)
       ELSE /\ req' = [req EXCEPT ![s] = [r1 EXCEPT !.pc = "upstream"]]
            /\ last' = NoLast
            /\ UNCHANGED <<cb, streak>>
    /\ UNCHANGED <<cfg, now, items, nreq, seen200, origin, lim>>
    /\ UNCHANGED nonGwVars

\* A second passes.
Tick ==
    /\ now < MaxTime
    /\ now' = now + 1
    /\ last' = NoLast
    /\ UNCHANGED <<cfg, cb, items, req, nreq, streak, seen200, origin, lim>>
    /\ UNCHANGED nonGwVars

\* The cache's ticker fires: Cache.startCleanup calls deleteExpired.
Sweep ==
    /\ cfg.enableCache
    /\ items' = DeleteExpired(items, now)
    /\ items' # items
    /\ last' = NoLast
    /\ UNCHANGED <<cfg, now, cb, req, nreq, streak, seen200, origin, lim>>
    /\ UNCHANGED nonGwVars

\* No service is being dispatched to.
NoService == [basePath |-> <<>>, stripBasePath |-> FALSE, targetPath |-> <<>>]
NotSent == <<"-">>

PathIdle == svc = NoService /\ inbound = <<>> /\ outbound = NotSent

\* No cache is being exercised on its own.
NoGot == [n |-> 0, key |-> "", value |-> "nil", found |-> FALSE, at |-> 0]

CacheIdle ==
    /\ defaultExpiration = 0
    /\ setting = <<>>
    /\ cleanup = [pc |-> "stopped", now |-> 0]
    /\ written = <<>>
    /\ got = NoGot

\* No WebSocket is being tunnelled.
WSIdle ==
    /\ wsMain = [pc |-> "none", dir |-> "", frame |-> <<>>, result |-> "none",
                 err |-> [kind |-> "nil", code |-> 0],
                 wraps |-> [kind |-> "nil", code |-> 0]]
    /\ pump = <<>>
    /\ errChan = <<>>
    /\ done = FALSE
    /\ closed = <<>>
    /\ readLog = <<>>
    /\ writeLog = <<>>
    /\ firstErr = FALSE
    /\ readsAfterErr = <<>>
    /\ readsAfterDone = <<>>

\* No request's X-Request-ID is being followed.
HeaderIdle ==
    /\ reqHeader = "" /\ respHeader = "" /\ outHeader = ""
    /\ ridPc = "none"
    /\ ridEnv = <<>>

NoTunnel ==
    [basePath |-> <<>>, stripBasePath |-> FALSE, path |-> <<>>, wsPath |-> <<>>,
     quiet |-> FALSE]

TunnelIdle == tunnel = NoTunnel

MaxRunning == 2

Runners == 1 .. MaxRunning

NoCall == [pc |-> "idle", generation |-> 0]

NoEv ==
    [op |-> "none", from |-> "closed", to |-> "closed", success |-> FALSE,
     counted |-> FALSE, counts |-> ZeroCounts, err |-> "nil"]

BreakerIdle ==
    /\ calls = [r \in Runners |-> NoCall]
    /\ ncalls = 0
    /\ ev = NoEv
    /\ openedAt = NoTime

NoForward ==
    [kind |-> NoKind, outcome |-> NoReply, err |-> 0, status |-> 0, body |-> "nil",
     wrote |-> FALSE, hit |-> FALSE, sent |-> FALSE,
     before |-> [k \in CacheKeys |-> NoItem]]

ForwardIdle == fwd = NoForward /\ nfwd = 0

NoRouted == [path |-> <<>>, upgrade |-> FALSE, service |-> "", via |-> "none"]
RegisterIdle == routes = <<>> /\ routed = NoRouted

NoSecurity == [enableJWT |-> FALSE, enableAPIKey |-> FALSE]
NoServed == [path |-> "", authorization |-> "", apiKey |-> "", status |-> 0,
             ran |-> "none", upstream |-> FALSE]
AuthIdle == sec = NoSecurity /\ served = NoServed

NoSwept == [n |-> 0, at |-> 0, lockAt |-> 0, before |-> <<>>, after |-> <<>>]
TTLIdle == asked = <<>> /\ swept = NoSwept /\ closer = <<>>

NoDial == [n |-> 0]
DialIdle == dial = NoDial

NoLimiter == [max |-> 0, window |-> 0, now |-> 0]
NoLimited == [n |-> 0]
RateIdle == rl = NoLimiter /\ ips = <<>> /\ limited = NoLimited /\ windows = <<>>

NoExecute == [pc |-> "none"]
TimeoutIdle == tmo = NoExecute

NoGate == [n |-> 0]
GateIdle == gate = NoGate

GuardIdle == RateIdle /\ TimeoutIdle /\ GateIdle

FourIdle == RegisterIdle /\ AuthIdle /\ TTLIdle /\ DialIdle

LateIdle == FourIdle /\ GuardIdle

MoreIdle == HeaderIdle /\ TunnelIdle /\ BreakerIdle /\ ForwardIdle /\ LateIdle

InitGateway(configs, reqs, inflight) ==
    /\ cfg \in configs
    /\ lim = [reqs |-> reqs, inflight |-> inflight]
    /\ now = 0
    /\ cb = NewCircuitBreaker
    /\ items = [k \in CacheKeys |-> NoItem]
    /\ req = [s \in Slots |-> IdleReq]
    /\ nreq = 0
    /\ last = NoLast
    /\ streak = 0
    /\ seen200 = [k \in CacheKeys |-> NoPrior]
    /\ origin = [k \in CacheKeys |-> [method |-> "", status |-> 0]]

\* The gateway before it has served anything.
Init ==
    InitGateway(Configs, MaxReqs, MaxInFlight)
    /\ PathIdle /\ CacheIdle /\ WSIdle /\ MoreIdle

Next ==
    \/ \E s \in Slots, k \in Kinds : Arrive(s, k)
    \/ \E s \in Slots, o \in Outcomes : UpstreamReply(s, o)
    \/ \E s \in Slots : RetryAttempt(s)
    \/ Tick
    \/ Sweep

Spec == Init /\ [][Next]_vars

\* Scenario S3: one request at a time, MaxReqsS3 requests.
InitS3 ==
    InitGateway({ConfigS3}, MaxReqsS3, 1)
    /\ PathIdle /\ CacheIdle /\ WSIdle /\ MoreIdle

SpecS3 == InitS3 /\ [][Next]_vars

\* Breaker outside, retrier inside, and requests served concurrently: the
\* breaker trips at the first failed chain, each chain has up to two attempts.
ConfigsS18 ==
    {Config([enableCB |-> TRUE, failureThreshold |-> 1, resetTimeout |-> 1],
            [enableRetry |-> TRUE, maxRetries |-> 1],
            [enableCache |-> TRUE, cacheTTL |-> 1])}

InitS18 ==
    InitGateway(ConfigsS18, MaxSlots, MaxSlots)
    /\ PathIdle /\ CacheIdle /\ WSIdle /\ MoreIdle

SpecS18 == InitS18 /\ [][Next]_vars

\* Scenario S4: retry with max_retries 3, with and without the cache.
ConfigsS4 ==
    {Config(NoBreaker, [enableRetry |-> TRUE, maxRetries |-> 3], c) :
        c \in CacheConfigs}

InitS4 ==
    InitGateway(ConfigsS4, MaxReqs, MaxInFlight)
    /\ PathIdle /\ CacheIdle /\ WSIdle /\ MoreIdle

SpecS4 == InitS4 /\ [][Next]_vars

----------------------------------------------------------------------------
(* Properties of the HTTP path *)

InFlight == {s \in Slots : req[s].pc # "idle"}

\* C1: a call of CircuitBreaker.Execute that finds the breaker Open does not
\* invoke the thunk (Forward is never called, no upstream request is made) and
\* the client is answered 503.
C1_OpenBreakerRefuses ==
    /\ \A s \in InFlight : req[s].cbSeen # "open"
    /\ (last.n = 1 /\ last.cbSeen = "open") =>
           /\ last.attempts = 0
           /\ last.upstreamCalls = 0
           /\ last.status = StatusServiceUnavailable

\* C1 happens: a request has just been refused by the Open breaker.
C1_Witness ==
    last.n = 1 /\ last.refused /\ last.cbSeen = "open" /\ last.kind.upgrade = ""

C3_FifthRequestRefused ==
    (cfg.enableCB /\ cfg.failureThreshold = 4 /\ cfg.resetTimeout = 30) =>
        /\ \A s \in InFlight : ~(req[s].afterRun /\ req[s].kind.upgrade = "")
        /\ (last.n = 1 /\ last.afterRun /\ last.kind.upgrade = "") =>
               last.status = StatusServiceUnavailable /\ last.upstreamCalls = 0

\* C4 as stated: with caching enabled, a GET that arrives within the TTL of an
\* upstream 200 to a GET for the same path and query is answered with that body
\* and is not sent upstream.
C4_LaterGetFromCache ==
    cfg.enableCache =>
        /\ \A s \in InFlight : ~req[s].prior.valid
        /\ (last.n = 1 /\ last.prior.valid) =>
               /\ last.status = StatusOK
               /\ last.body = last.prior.body
               /\ last.upstreamCalls = 0

\* C4 amended: ... provided the circuit breaker, if enabled, admits the request
\* (an Open breaker, or a HalfOpen one at its probe limit, refuses it before
\* Forward looks at the cache); the body is that of the latest such upstream 200.
C4_AdmittedLaterGetFromCache ==
    cfg.enableCache =>
        /\ \A s \in InFlight : ~req[s].prior.valid
        /\ (last.n = 1 /\ last.prior.valid /\ ~last.refused) =>
               /\ last.status = StatusOK
               /\ last.body = last.prior.body
               /\ last.hit
               /\ last.upstreamCalls = 0

\* C4 happens: a GET was answered from the cache, behind an enabled breaker.
C4_Witness ==
    /\ cfg.enableCache /\ cfg.enableCB
    /\ last.n = 1 /\ last.prior.valid /\ last.hit /\ last.body = "b2"

\* C5: every entry of the forwarder's cache was stored for a GET whose upstream
\* response had status 200.
C5_OnlyGet200Cached ==
    \A k \in CacheKeys :
        items[k].present =>
            origin[k].method = "GET" /\ origin[k].status = StatusOK

\* C5 happens: the cache holds an entry, and a POST and a non-200 GET have been
\* forwarded since (the last request was one of them).
C5_Witness ==
    /\ \E k \in CacheKeys : items[k].present
    /\ last.n = 1 /\ ~last.hit /\ last.err = 0 /\ last.upstreamCalls > 0
    /\ (last.kind.method = "POST" \/ last.status # StatusOK)

\* C12: with retry enabled and max_retries = 3, when Forward's upstream call
\* fails on the first two attempts and the upstream answers the third, the
\* client receives that answer and the upstream was sent exactly 3 requests.
C12_ThirdAttemptAnswers ==
    (cfg.enableRetry /\ cfg.maxRetries = 3 /\ last.n = 1
     /\ last.attempts = 3 /\ last.fails = 2 /\ last.reply.t = "resp") =>
        /\ last.err = 0 /\ last.wrote
        /\ last.status = last.reply.status /\ last.body = last.reply.body
        /\ last.upstreamCalls = 3

\* C12 happens: two failed attempts, then a 200 relayed to the client.
C12_Witness ==
    /\ cfg.enableRetry /\ cfg.maxRetries = 3 /\ last.n = 1
    /\ last.attempts = 3 /\ last.fails = 2 /\ last.reply.t = "resp"
    /\ last.status = StatusOK /\ last.body = "b2"

\* C21: Retrier.Execute calls the function again after every error, whatever
\* the error is, while retries are left; it stops at the first call that
\* returns nil and returns nil; and when every call has failed it returns the
\* error of the last call. runErr is what the last call of Forward returned.
C21_RetriesEveryError ==
    cfg.enableRetry =>
        /\ \A s \in InFlight :
               /\ req[s].pc = "backoff" => req[s].fails = req[s].attempts
               /\ req[s].pc = "upstream" => req[s].fails = req[s].attempts - 1
        /\ (last.n = 1 /\ last.attempts >= 1) =>
               IF last.runErr = 0
               THEN last.err = 0 /\ last.fails = last.attempts - 1
               ELSE /\ last.err = last.runErr
                    /\ last.fails = last.attempts
                    /\ last.attempts = cfg.maxRetries + 1

\* C21 happens: four calls have failed and the 404 of the last one is returned.
C21_Witness ==
    /\ cfg.enableRetry /\ last.n = 1
    /\ last.attempts = 4 /\ last.fails = 4
    /\ last.runErr = StatusNotFound /\ last.err = StatusNotFound

\* A breaker that opens at the first failure and probes one call at a time,
\* with up to MaxSlots requests in flight.
ConfigsProbe ==
    {Config([enableCB |-> TRUE, failureThreshold |-> n, resetTimeout |-> 1],
            r, c) : n \in {0, 1}, r \in RetryConfigs, c \in CacheConfigs}

InitProbe ==
    InitGateway(ConfigsProbe, MaxReqs, MaxSlots)
    /\ PathIdle /\ CacheIdle /\ WSIdle /\ MoreIdle

SpecProbe == InitProbe /\ [][Next]_vars

\* C38: every call that the circuit breaker refuses without invoking the
\* thunk, whether because the breaker is Open or because the HalfOpen probe
\* limit is already reached, is reported to the client as 503.
C38_EveryRefusalIs503 ==
    (last.n = 1 /\ last.refused) =>
        /\ last.attempts = 0
        /\ last.status = StatusServiceUnavailable

\* A refused call never reaches Forward; the refusal of an Open breaker is
\* answered 503 and that of a HalfOpen breaker at its probe limit 500.
RefusalStatusByState ==
    (last.n = 1 /\ last.refused) =>
        /\ last.attempts = 0 /\ last.upstreamCalls = 0
        /\ last.cbSeen \in {"open", "half-open"}
        /\ last.status = IF last.cbSeen = "open" THEN StatusServiceUnavailable
                         ELSE StatusInternalServerError

\* The breaker as a request arriving now finds it, and whether it refuses.
Found == CurrentState(cb, cfg, now)

Refuses(s) ==
    \/ s.state = "open"
    \/ s.state = "half-open" /\ s.counts.requests >= BreakerMaxRequests(cfg)

\* The request that ends in this step is a GET whose response is in the cache
\* and not expired.
CachedGetEnds ==
    cfg.enableCache /\ last'.n = 1 /\ last'.prior.valid

CachedGetClosesBreaker ==
    /\ cfg.enableCache /\ last.n = 1 /\ last.prior.valid /\ last.hit
    /\ last.cbSeen = "half-open" /\ cb.state = "closed"

----------------------------------------------------------------------------
(* Path rewriting: RegisterService's HTTP route and Forward's request URL. *)
(* A path is a sequence of one-character strings.                          *)

Chars == {"/", "a", "x"}

Str(n) == UNION {[1 .. m -> Chars] : m \in 0 .. n}

\* strings.HasPrefix, strings.HasSuffix, strings.TrimPrefix, strings.TrimSuffix
HasPrefix(str, prefix) ==
    Len(str) >= Len(prefix) /\ SubSeq(str, 1, Len(prefix)) = prefix

HasSuffix(str, suffix) ==
    Len(str) >= Len(suffix)
    /\ SubSeq(str, Len(str) - Len(suffix) + 1, Len(str)) = suffix

TrimPrefix(str, prefix) ==
    IF HasPrefix(str, prefix) THEN SubSeq(str, Len(prefix) + 1, Len(str)) ELSE str

TrimSuffix(str, suffix) ==
    IF HasSuffix(str, suffix) THEN SubSeq(str, 1, Len(str) - Len(suffix)) ELSE str

\* RegisterService's basePath as the HTTP route uses it: a leading and a
\* trailing slash are added when missing.
RouteBasePath(sc) ==
    LET b1 == IF HasPrefix(sc.basePath, <<"/">>) THEN sc.basePath
              ELSE <<"/">> \o sc.basePath
    IN IF HasSuffix(b1, <<"/">>) THEN b1 ELSE b1 \o <<"/">>

\* utils.TrimRight(path, '/'): fiber matches routes on the path without its
\* trailing slashes (StrictRouting is off).
RECURSIVE TrimRightSlash(_)
TrimRightSlash(str) ==
    IF Len(str) > 0 /\ str[Len(str)] = "/"
    THEN TrimRightSlash(SubSeq(str, 1, Len(str) - 1))
    ELSE str

DetectionPath(p) == IF Len(p) > 1 THEN TrimRightSlash(p) ELSE p

\* The route app.All(basePath + "*"): the constant part, whose last slash is
\* optional when nothing follows it, and then the wildcard.
RouteMatches(base, p) ==
    LET d == DetectionPath(p) IN
    HasPrefix(d, base) \/ d = SubSeq(base, 1, Len(base) - 1)

\* c.Params("*"): what the wildcard matched, the path after the route's
\* constant part.
Params(base, p) ==
    LET d == DetectionPath(p) IN
    IF HasPrefix(d, base) THEN SubSeq(d, Len(base) + 1, Len(d)) ELSE <<>>

\* The path the route's handler hands to handleHTTP.
HandlerPath(sc, p) ==
    LET basePath == RouteBasePath(sc)
        path == Params(basePath, p)
    IN IF sc.stripBasePath THEN TrimPrefix(path, basePath) ELSE path

\* The path of Forward's request URL: the target's path unless empty or "/",
\* then the handler's path behind a slash unless empty.
RequestURLPath(targetPath, path) ==
    LET t == IF targetPath # <<>> /\ targetPath # <<"/">> THEN targetPath ELSE <<>>
        q == IF path = <<>> THEN <<>>
             ELSE IF HasPrefix(path, <<"/">>) THEN path ELSE <<"/">> \o path
    IN t \o q

\* What the upstream sees: http.NewRequest sends an empty path as "/".
OutboundPath(sc, p) ==
    LET u == RequestURLPath(sc.targetPath, HandlerPath(sc, p))
    IN IF u = <<>> THEN <<"/">> ELSE u

MaxRest == 3

BasePaths == {<<"/", "a">>, <<"/", "a", "/">>, <<"a">>}
TargetPaths == {<<>>, <<"/">>, <<"/", "x">>}

Services ==
    [basePath : BasePaths, stripBasePath : BOOLEAN, targetPath : TargetPaths]

\* The request paths the service's HTTP route matches.
RequestPaths(sc) ==
    {p \in {<<"/", "a">>} \cup {<<"/", "a", "/">> \o r : r \in Str(MaxRest)} :
        RouteMatches(RouteBasePath(sc), p)}

\* The route's handler runs and Forward sends the request upstream.
Dispatch ==
    /\ svc # NoService
    /\ outbound = NotSent
    /\ outbound' = OutboundPath(svc, inbound)
    /\ UNCHANGED <<svc, inbound, gwVars, cacheVars, wsVars, moreVars>>

\* No HTTP request is being served.
GatewayRestIdle ==
    /\ cfg = Config(NoBreaker, NoRetry, [enableCache |-> FALSE, cacheTTL |-> 1])
    /\ lim = [reqs |-> 0, inflight |-> 0]
    /\ cb = NewCircuitBreaker
    /\ req = [s \in Slots |-> IdleReq]
    /\ nreq = 0
    /\ last = NoLast
    /\ streak = 0
    /\ seen200 = [k \in CacheKeys |-> NoPrior]
    /\ origin = [k \in CacheKeys |-> [method |-> "", status |-> 0]]

GatewayIdle ==
    GatewayRestIdle /\ now = 0 /\ items = [k \in CacheKeys |-> NoItem]

InitPath ==
    /\ svc \in Services
    /\ inbound \in RequestPaths(svc)
    /\ outbound = NotSent
    /\ GatewayIdle /\ CacheIdle /\ WSIdle /\ MoreIdle

NextPath == Dispatch

SpecPath == InitPath /\ [][NextPath]_vars

\* The most forgiving reading of "begins with the base path": the configured
\* base path, with a leading and without a trailing slash, is a whole-segment
\* prefix of the path.
BeginsWithBasePath(p, sc) ==
    LET b == TrimSuffix(RouteBasePath(sc), <<"/">>) IN
    HasPrefix(p, b) /\ (Len(p) = Len(b) \/ p[Len(b) + 1] = "/")

\* C7 as stated: for every HTTP request the Router dispatches to a service, the
\* outbound path does not begin with the service's base_path when
\* strip_base_path is true, and begins with it when strip_base_path is false.
C7_StripFlagDecidesPrefix ==
    outbound # NotSent =>
        IF svc.stripBasePath THEN ~BeginsWithBasePath(outbound, svc)
        ELSE BeginsWithBasePath(outbound, svc)

----------------------------------------------------------------------------
(* The cache on its own: callers of Set, Get, Delete, Clear and Close, and  *)
(* the sweeper goroutine.  Every critical section under Cache.mu is one     *)
(* step; Set and deleteExpired read the clock before they take the lock, so *)
(* each of them is two steps.  The ticker may fire at any moment.           *)

MaxClock == 4
MaxTTL == 2
MaxSetters == 1

Keys == {"k1"}
Values == {"v1", "v2"}
Setters == 1 .. MaxSetters

NoSet == [pc |-> "idle", key |-> "", value |-> "nil", at |-> 0, expiration |-> 0]
NoWrite == [valid |-> FALSE, value |-> "nil", at |-> 0]

gwRest == <<cfg, cb, req, nreq, last, streak, seen200, origin, lim>>

\* Set, up to c.mu.Lock(): the expiry time is computed from the clock now.
SetRead(g, k, v) ==
    /\ setting[g].pc = "idle"
    /\ setting' = [setting EXCEPT ![g] =
                     [pc |-> "lock", key |-> k, value |-> v, at |-> now,
                      expiration |-> ExpirationOf(defaultExpiration,
                                                  defaultExpiration, now)]]
    /\ got' = NoGot
    /\ UNCHANGED <<now, items, defaultExpiration, cleanup, written>>
    /\ UNCHANGED <<gwRest, pathVars, wsVars, moreVars>>

\* Set, under the lock: the item is stored.
SetWrite(g) ==
    /\ setting[g].pc = "lock"
    /\ items' = [items EXCEPT ![setting[g].key] =
                   [present |-> TRUE, value |-> setting[g].value,
                    expiration |-> setting[g].expiration]]
    /\ written' = [written EXCEPT ![setting[g].key] =
                     [valid |-> TRUE, value |-> setting[g].value,
                      at |-> setting[g].at]]
    /\ setting' = [setting EXCEPT ![g] = NoSet]
    /\ got' = NoGot
    /\ UNCHANGED <<now, defaultExpiration, cleanup>>
    /\ UNCHANGED <<gwRest, pathVars, wsVars, moreVars>>

\* Cache.Get(k), under the read lock.
CacheGet(k) ==
    /\ LET g == Get(items, k, now)
       IN got' = [n |-> 1, key |-> k, value |-> g.value, found |-> g.found,
                  at |-> now]
    /\ UNCHANGED <<now, items, defaultExpiration, setting, cleanup, written>>
    /\ UNCHANGED <<gwRest, pathVars, wsVars, moreVars>>

\* Cache.Delete(k)
CacheDelete(k) ==
    /\ items[k].present
    /\ items' = [items EXCEPT ![k] = NoItem]
    /\ written' = [written EXCEPT ![k] = NoWrite]
    /\ got' = NoGot
    /\ UNCHANGED <<now, defaultExpiration, setting, cleanup>>
    /\ UNCHANGED <<gwRest, pathVars, wsVars, moreVars>>

\* Cache.Clear()
CacheClear ==
    /\ \E k \in Keys : items[k].present
    /\ items' = [k \in Keys |-> NoItem]
    /\ written' = [k \in Keys |-> NoWrite]
    /\ got' = NoGot
    /\ UNCHANGED <<now, defaultExpiration, setting, cleanup>>
    /\ UNCHANGED <<gwRest, pathVars, wsVars, moreVars>>

\* The ticker fires: startCleanup calls deleteExpired, which reads the clock.
CleanupTick ==
    /\ cleanup.pc = "select"
    /\ cleanup' = [pc |-> "lock", now |-> now]
    /\ got' = NoGot
    /\ UNCHANGED <<now, items, defaultExpiration, setting, written>>
    /\ UNCHANGED <<gwRest, pathVars, wsVars, moreVars>>

\* deleteExpired, under the lock.
CleanupSweep ==
    /\ cleanup.pc = "lock"
    /\ items' = DeleteExpired(items, cleanup.now)
    /\ cleanup' = [pc |-> "select", now |-> 0]
    /\ got' = NoGot
    /\ UNCHANGED <<now, defaultExpiration, setting, written>>
    /\ UNCHANGED <<gwRest, pathVars, wsVars, moreVars>>

\* Cache.Close(): the sweeper receives from stopCleanup and returns.
CacheClose ==
    /\ cleanup.pc = "select"
    /\ cleanup' = [pc |-> "stopped", now |-> 0]
    /\ got' = NoGot
    /\ UNCHANGED <<now, items, defaultExpiration, setting, written>>
    /\ UNCHANGED <<gwRest, pathVars, wsVars, moreVars>>

\* A second passes.
CacheTick ==
    /\ now < MaxClock
    /\ now' = now + 1
    /\ got' = NoGot
    /\ UNCHANGED <<items, defaultExpiration, setting, cleanup, written>>
    /\ UNCHANGED <<gwRest, pathVars, wsVars, moreVars>>

\* cache.New(ttl) with ttl > 0.
InitCache ==
    /\ GatewayRestIdle /\ PathIdle /\ WSIdle /\ MoreIdle
    /\ now = 0
    /\ items = [k \in Keys |-> NoItem]
    /\ defaultExpiration \in 1 .. MaxTTL
    /\ setting = [g \in Setters |-> NoSet]
    /\ cleanup = [pc |-> "select", now |-> 0]
    /\ written = [k \in Keys |-> NoWrite]
    /\ got = NoGot

NextCache ==
    \/ \E g \in Setters, k \in Keys, v \in Values : SetRead(g, k, v)
    \/ \E g \in Setters : SetWrite(g)
    \/ \E k \in Keys : CacheGet(k)
    \/ \E k \in Keys : CacheDelete(k)
    \/ CacheClear
    \/ CleanupTick
    \/ CleanupSweep
    \/ CacheClose
    \/ CacheTick

SpecCache == InitCache /\ [][NextCache]_vars

\* C6: with a default TTL > 0, after Set(k, v) and no later write or delete of
\* k, Get(k) returns (v, true) at every time less than the TTL after the Set
\* and (nil, false) at every time more than the TTL after it, whether or not
\* the sweeper has run.  Times are counted from the Set's reading of the clock.
C6_SetThenGet ==
    (got.n = 1 /\ written[got.key].valid) =>
        LET w == written[got.key] IN
        /\ got.at < w.at + defaultExpiration =>
               got.found /\ got.value = w.value
        /\ got.at > w.at + defaultExpiration =>
               ~got.found /\ got.value = "nil"

\* C6 happens: a Get more than the TTL after the Set misses although the
\* sweeper has not removed the entry.
C6_Witness ==
    /\ got.n = 1 /\ written[got.key].valid
    /\ got.at > written[got.key].at + defaultExpiration
    /\ ~got.found /\ items[got.key].present

----------------------------------------------------------------------------
(* The WebSocket tunnel: ProxyWebSocket from the moment the upstream socket *)
(* is connected.  Direction "up" is client to target, "down" is target to   *)
(* client.  A socket operation is one step.                                 *)

MaxFrames == 2

Frames == {[type |-> "text", payload |-> "p1"], [type |-> "binary", payload |-> "p2"]}
NoFrame == <<>>
Dirs == {"up", "down"}
Conns == {"client", "target"}

\* An error of a socket operation: a *websocket.CloseError with its code, or
\* any other error (a timeout, a write on a closed socket).
NilErr == [kind |-> "nil", code |-> 0]
IOErr == [kind |-> "io", code |-> 0]
CloseError(code) == [kind |-> "close", code |-> code]

\* The close codes a peer's close frame or a dropped connection can produce
\* here: normal closure, going away, protocol error, no status, abnormal
\* closure, internal error.
CloseCodes == {1000, 1001, 1002, 1005, 1006, 1011}

Errs == {CloseError(code) : code \in CloseCodes} \cup {IOErr}

\* One expected close and one other error, where the code does not matter.
PumpErrs == {CloseError(1000), IOErr}

\* The codes ProxyWebSocket passes to websocket.IsCloseError.
ExpectedCloseCodes == {1001, 1000, 1005, 1006}

\* websocket.IsCloseError(err, codes...)
IsCloseError(err, codes) == err.kind = "close" /\ err.code \in codes

Src(d) == IF d = "up" THEN "client" ELSE "target"

\* Pumps that both write to the client's socket.
DstAlwaysClient(d) == "client"

Dst(d) == IF d = "up" THEN "target" ELSE "client"

otherVars == <<gwVars, pathVars, cacheVars, moreVars>>

\* A WriteMessage that sends every frame as a text frame.
WriteMessageAsText(log, messageType, message) ==
    Append(log, [type |-> "text", payload |-> message])

\* conn.WriteMessage(messageType, message): the frame goes out after those
\* written before it.
WriteMessage(log, messageType, message) ==
    Append(log, [type |-> messageType, payload |-> message])

\* A select that never finds done ready.
DoneReadyNever(d) == FALSE

\* The pump's select: the case <-done is taken when done is closed, the
\* default case otherwise.
DoneReady(d) == d

\* A ProxyWebSocket for which an abnormal closure (1006) is a failure.
ResultOfAbnormalFails(err) ==
    IF IsCloseError(err, ExpectedCloseCodes \ {1006}) THEN "nil" ELSE "err"

\* ProxyWebSocket's result for the error it received from errChan.
ResultOf(err) == IF IsCloseError(err, ExpectedCloseCodes) THEN "nil" ELSE "err"

\* fmt.Errorf("...: %w", err) wraps err; a nil return wraps nothing.
Wrapped(result, err) == IF result = "err" THEN err ELSE NilErr

\* The Socket.IO handshake reads one frame from one side ...
HandshakeRead(f) ==
    /\ wsMain.pc = "hsRead"
    /\ Len(readLog[wsMain.dir]) < MaxFrames
    /\ readLog' = [readLog EXCEPT ![wsMain.dir] = Append(@, f)]
    /\ wsMain' = [wsMain EXCEPT !.pc = "hsWrite", !.frame = f]
    /\ UNCHANGED <<pump, errChan, done, closed, writeLog, firstErr,
                   readsAfterErr, readsAfterDone>>
    /\ UNCHANGED otherVars

\* ... or fails to (the read deadline passes, the peer goes away): it returns
\* the error and the deferred targetConn.Close() runs.
HandshakeReadFails ==
    /\ wsMain.pc = "hsRead"
    /\ wsMain' = [wsMain EXCEPT !.pc = "closeTarget", !.result = "err",
                                 !.wraps = IOErr]
    /\ UNCHANGED <<pump, errChan, done, closed, readLog, writeLog, firstErr,
                   readsAfterErr, readsAfterDone>>
    /\ UNCHANGED otherVars

\* ... and writes it to the other side: first from target to client, then
\* from client to target; then the pumps are started.
HandshakeWrite(ok) ==
    /\ wsMain.pc = "hsWrite"
    /\ IF ok
       THEN /\ writeLog' = [writeLog EXCEPT ![wsMain.dir] =
                              WriteMessage(@, wsMain.frame.type, wsMain.frame.payload)]
            /\ wsMain' = IF wsMain.dir = "down"
                         THEN [wsMain EXCEPT !.pc = "hsRead", !.dir = "up",
                                             !.frame = NoFrame]
                         ELSE [wsMain EXCEPT !.pc = "spawn", !.dir = "",
                                             !.frame = NoFrame]
       ELSE /\ wsMain' = [wsMain EXCEPT !.pc = "closeTarget", !.result = "err",
                                        !.wraps = IOErr, !.frame = NoFrame]
            /\ UNCHANGED writeLog
    /\ UNCHANGED <<pump, errChan, done, closed, readLog, firstErr,
                   readsAfterErr, readsAfterDone>>
    /\ UNCHANGED otherVars

\* errChan and done are made, the two goroutines are started, and
\* ProxyWebSocket blocks on errChan.
Spawn ==
    /\ wsMain.pc = "spawn"
    /\ wsMain' = [wsMain EXCEPT !.pc = "wait"]
    /\ pump' = [d \in Dirs |-> [pc |-> "select", frame |-> NoFrame]]
    /\ UNCHANGED <<errChan, done, closed, readLog, writeLog, firstErr,
                   readsAfterErr, readsAfterDone>>
    /\ UNCHANGED otherVars

\* The top of a pump's loop.
PumpSelect(d) ==
    /\ pump[d].pc = "select"
    /\ pump' = [pump EXCEPT ![d].pc = IF DoneReady(done) THEN "stopped" ELSE "read"]
    /\ UNCHANGED <<wsMain, errChan, done, closed, readLog, writeLog, firstErr,
                   readsAfterErr, readsAfterDone>>
    /\ UNCHANGED otherVars

\* A read has completed: the history counts it.
CountRead(d) ==
    /\ readsAfterErr' = [readsAfterErr EXCEPT ![d] = IF firstErr THEN @ + 1 ELSE @]
    /\ readsAfterDone' = [readsAfterDone EXCEPT ![d] = IF done THEN @ + 1 ELSE @]

\* ReadMessage returns a frame (one that arrived before the socket was closed,
\* if it is closed).
PumpReadFrame(d, f) ==
    /\ pump[d].pc = "read"
    /\ Len(readLog[d]) < MaxFrames
    /\ readLog' = [readLog EXCEPT ![d] = Append(@, f)]
    /\ pump' = [pump EXCEPT ![d] = [pc |-> "write", frame |-> f]]
    /\ CountRead(d)
    /\ UNCHANGED <<wsMain, errChan, done, closed, writeLog, firstErr>>
    /\ UNCHANGED otherVars

\* An errChan that holds a single error.
ErrChanCapacityOne == 1

\* make(chan error, 2)
ErrChanCapacity == 2

\* errChan <- e: the error is buffered and the pump returns; with the buffer
\* full the pump waits in the send.
ChanAfterSend(e) ==
    IF Len(errChan) < ErrChanCapacity THEN Append(errChan, e) ELSE errChan

PumpAfterSend(e) ==
    IF Len(errChan) < ErrChanCapacity
    THEN [pc |-> "stopped", frame |-> NoFrame]
    ELSE [pc |-> "sending", frame |-> NoFrame, err |-> e]

\* ReadMessage returns an error: the pump sends it on errChan and returns.
PumpReadError(d, e) ==
    /\ pump[d].pc = "read"
    /\ errChan' = ChanAfterSend(e)
    /\ firstErr' = TRUE
    /\ pump' = [pump EXCEPT ![d] = PumpAfterSend(e)]
    /\ CountRead(d)
    /\ UNCHANGED <<wsMain, done, closed, readLog, writeLog>>
    /\ UNCHANGED otherVars

\* ReadMessage on a socket that has been closed returns an error.
PumpReadClosed(d) ==
    closed[Src(d)] /\ PumpReadError(d, IOErr)

\* WriteMessage returns: the frame is written, or (always, on a closed socket)
\* the error is sent on errChan and the pump returns.
PumpWrite(d, ok) ==
    /\ pump[d].pc = "write"
    /\ ok => ~closed[Dst(d)]
    /\ IF ok
       THEN /\ writeLog' = [writeLog EXCEPT ![d] =
                              WriteMessage(@, pump[d].frame.type, pump[d].frame.payload)]
            /\ pump' = [pump EXCEPT ![d] = [pc |-> "select", frame |-> NoFrame]]
            /\ UNCHANGED <<errChan, firstErr>>
       ELSE /\ errChan' = ChanAfterSend(IOErr)
            /\ firstErr' = TRUE
            /\ pump' = [pump EXCEPT ![d] = PumpAfterSend(IOErr)]
            /\ UNCHANGED writeLog
    /\ UNCHANGED <<wsMain, done, closed, readLog, readsAfterErr, readsAfterDone>>
    /\ UNCHANGED otherVars

\* The pumps waiting in their send on errChan.
Sending == {d \in Dirs : pump[d].pc = "sending"}

\* err = <-errChan, and the choice of what to return. The receive makes room
\* in the buffer, which a pump waiting in its send takes.
MainReceive ==
    /\ wsMain.pc = "wait"
    /\ errChan # <<>>
    /\ wsMain' = [wsMain EXCEPT !.pc = "closeDone",
                                 !.err = Head(errChan),
                                 !.result = ResultOf(Head(errChan)),
                                 !.wraps = Wrapped(ResultOf(Head(errChan)),
                                                   Head(errChan))]
    /\ IF Sending = {}
       THEN errChan' = Tail(errChan) /\ UNCHANGED pump
       ELSE \E d \in Sending :
               /\ errChan' = Append(Tail(errChan), pump[d].err)
               /\ pump' = [pump EXCEPT ![d] = [pc |-> "stopped", frame |-> NoFrame]]
    /\ UNCHANGED <<done, closed, readLog, writeLog, firstErr,
                   readsAfterErr, readsAfterDone>>
    /\ UNCHANGED otherVars

\* The deferred close(done).
CloseDone ==
    /\ wsMain.pc = "closeDone"
    /\ done' = TRUE
    /\ wsMain' = [wsMain EXCEPT !.pc = "closeTarget"]
    /\ UNCHANGED <<pump, errChan, closed, readLog, writeLog, firstErr,
                   readsAfterErr, readsAfterDone>>
    /\ UNCHANGED otherVars

\* The deferred targetConn.Close(); ProxyWebSocket has returned.
CloseTarget ==
    /\ wsMain.pc = "closeTarget"
    /\ closed' = [closed EXCEPT !["target"] = TRUE]
    /\ wsMain' = [wsMain EXCEPT !.pc = "returned"]
    /\ UNCHANGED <<pump, errChan, done, readLog, writeLog, firstErr,
                   readsAfterErr, readsAfterDone>>
    /\ UNCHANGED otherVars

\* The websocket.New handler of RegisterService returns and the server closes
\* the client's connection.
CallerClose ==
    /\ wsMain.pc = "returned"
    /\ closed' = [closed EXCEPT !["client"] = TRUE]
    /\ wsMain' = [wsMain EXCEPT !.pc = "released"]
    /\ UNCHANGED <<pump, errChan, done, readLog, writeLog, firstErr,
                   readsAfterErr, readsAfterDone>>
    /\ UNCHANGED otherVars

\* The upstream socket is connected; a Socket.IO URL gets the handshake first.
InitWS ==
    /\ GatewayIdle /\ PathIdle /\ CacheIdle /\ MoreIdle
    /\ \E isSocketIO \in BOOLEAN :
           wsMain = [pc |-> IF isSocketIO THEN "hsRead" ELSE "spawn",
                     dir |-> IF isSocketIO THEN "down" ELSE "",
                     frame |-> NoFrame, result |-> "none",
                     err |-> NilErr, wraps |-> NilErr]
    /\ pump = [d \in Dirs |-> [pc |-> "idle", frame |-> NoFrame]]
    /\ errChan = <<>>
    /\ done = FALSE
    /\ closed = [c \in Conns |-> FALSE]
    /\ readLog = [d \in Dirs |-> <<>>]
    /\ writeLog = [d \in Dirs |-> <<>>]
    /\ firstErr = FALSE
    /\ readsAfterErr = [d \in Dirs |-> 0]
    /\ readsAfterDone = [d \in Dirs |-> 0]

NextWS ==
    \/ \E f \in Frames : HandshakeRead(f)
    \/ HandshakeReadFails
    \/ \E ok \in BOOLEAN : HandshakeWrite(ok)
    \/ Spawn
    \/ \E d \in Dirs : PumpSelect(d)
    \/ \E d \in Dirs, f \in Frames : PumpReadFrame(d, f)
    \/ \E d \in Dirs, e \in PumpErrs : PumpReadError(d, e)
    \/ \E d \in Dirs, ok \in BOOLEAN : PumpWrite(d, ok)
    \/ MainReceive
    \/ CloseDone
    \/ CloseTarget
    \/ CallerClose

SpecWS == InitWS /\ [][NextWS]_vars

\* Every goroutine that can take a step takes one; a read is only certain to
\* return once its socket is closed.
FairWS ==
    /\ WF_vars(Spawn)
    /\ WF_vars(MainReceive) /\ WF_vars(CloseDone)
    /\ WF_vars(CloseTarget) /\ WF_vars(CallerClose)
    /\ \A d \in Dirs :
           /\ WF_vars(PumpSelect(d))
           /\ WF_vars(PumpReadClosed(d))
           /\ WF_vars(\E ok \in BOOLEAN : PumpWrite(d, ok))

SpecWSLive == InitWS /\ [][NextWS]_vars /\ FairWS

IsPrefix(a, b) == Len(a) <= Len(b) /\ a = SubSeq(b, 1, Len(a))

\* C9: in each direction of the tunnel the frames written to the destination
\* socket are a prefix of the frames read from the source socket: same order,
\* same type and payload, nothing duplicated, under every interleaving.
C9_WrittenIsPrefixOfRead ==
    \A d \in DOMAIN writeLog : IsPrefix(writeLog[d], readLog[d])

\* C9 happens: both pumps have relayed a frame, the downward one a binary frame.
C9_Witness ==
    /\ wsMain.pc = "wait"
    /\ Len(writeLog["up"]) >= 1
    /\ Len(writeLog["down"]) >= 2 /\ writeLog["down"][2].type = "binary"

\* The tunnel of a plain WebSocket with every error a read can return; the
\* frames relayed are text frames.
InitClose ==
    /\ InitWS
    /\ wsMain.pc = "spawn"

NextClose ==
    \/ Spawn
    \/ \E d \in Dirs : PumpSelect(d)
    \/ \E d \in Dirs : PumpReadFrame(d, [type |-> "text", payload |-> "p1"])
    \/ \E d \in Dirs, e \in Errs : PumpReadError(d, e)
    \/ \E d \in Dirs, ok \in BOOLEAN : PumpWrite(d, ok)
    \/ MainReceive
    \/ CloseDone
    \/ CloseTarget
    \/ CallerClose

SpecClose == InitClose /\ [][NextClose]_vars

\* C22: when the first error ProxyWebSocket receives from the pumps is a close
\* error with code 1000, 1001, 1005 or 1006 it returns nil; for any other
\* first error it returns an error that wraps the one it received.
C22_ExpectedCloseReturnsNil ==
    wsMain.err # NilErr =>
        IF wsMain.err.kind = "close" /\ wsMain.err.code \in {1000, 1001, 1005, 1006}
        THEN wsMain.result = "nil" /\ wsMain.wraps = NilErr
        ELSE wsMain.result = "err" /\ wsMain.wraps = wsMain.err

\* C22 happens: ProxyWebSocket has returned nil for an abnormal closure (1006)
\* while the error of the other pump is still waiting on errChan.
C22_Witness ==
    /\ wsMain.pc = "returned" /\ wsMain.result = "nil"
    /\ wsMain.err = CloseError(1006)
    /\ errChan = <<IOErr>>

AllDown ==
    /\ wsMain.pc \in {"returned", "released"}
    /\ done
    /\ \A c \in Conns : closed[c]
    /\ \A d \in Dirs : pump[d].pc = "stopped"

\* C10 as stated: after the first error of a pump, ProxyWebSocket returns, done
\* is closed, both sockets are closed and both pumps terminate; the pump that
\* did not fail completes at most one further read after that first error.
C10_DownAfterFirstError ==
    /\ [](\A d \in DOMAIN readsAfterErr : readsAfterErr[d] <= 1)
    /\ (firstErr ~> AllDown)

\* C10 amended: ... the pump that did not fail completes at most one further
\* read once done is closed (until then it goes on relaying).
C10_DownAfterDoneClosed ==
    /\ [](\A d \in DOMAIN readsAfterDone : readsAfterDone[d] <= 1)
    /\ (firstErr ~> AllDown)

\* C10 happens: everything is down, and the surviving pump completed a read
\* after done was closed.
C10_Witness ==
    /\ firstErr /\ AllDown
    /\ \E d \in Dirs : readsAfterDone[d] = 1

\* How many errors the pumps have sent: those in the channel and the one
\* ProxyWebSocket has received.
ErrorsSent ==
    Len(errChan) + IF wsMain.pc \in {"closeDone", "closeTarget", "returned", "released"}
                      /\ wsMain.err # NilErr
                   THEN 1 ELSE 0

\* C36: each pump sends at most one error on the error channel, so at most two
\* errors are ever sent and no send blocks: a pump that fails after
\* ProxyWebSocket has taken the first error and returned still completes its
\* send and exits.
C36_NoSendBlocks ==
    /\ Sending = {}
    /\ ErrorsSent <= 2
    /\ ErrorsSent <= Cardinality({d \in Dirs : pump[d].pc = "stopped"})
    /\ Len(errChan) <= ErrChanCapacity

\* ProxyWebSocket has returned with the first error, and the other pump, which
\* completed a read after done was closed, has sent its error and exited.
C36_Witness ==
    /\ wsMain.pc = "released" /\ Len(errChan) = 1
    /\ \E d \in Dirs : readsAfterDone[d] > 0
    /\ \A d \in Dirs : pump[d].pc = "stopped"

\* The goroutines inside ReadMessage on a socket, and those inside
\* WriteMessage: ProxyWebSocket itself during the handshake, and the pumps.
Readers(c) ==
    {g \in {"main"} : wsMain.pc = "hsRead" /\ Src(wsMain.dir) = c}
    \cup {d \in Dirs : pump[d].pc = "read" /\ Src(d) = c}

Writers(c) ==
    {g \in {"main"} : wsMain.pc = "hsWrite" /\ Dst(wsMain.dir) = c}
    \cup {d \in Dirs : pump[d].pc = "write" /\ Dst(d) = c}

\* C35: throughout a WebSocket tunnel, handshake and pumps, each of the two
\* sockets has at most one goroutine reading from it and at most one goroutine
\* writing to it at any moment.
C35_OneReaderOneWriter ==
    \A c \in Conns :
        /\ Cardinality(Readers(c)) <= 1
        /\ Cardinality(Writers(c)) <= 1

\* After a Socket.IO handshake both pumps are inside WriteMessage at once,
\* each on its own socket.
C35_Witness ==
    /\ Len(writeLog["up"]) >= 1 /\ Len(writeLog["down"]) >= 1
    /\ \A c \in Conns : Cardinality(Writers(c)) = 1
    /\ \A d \in Dirs : pump[d].pc = "write"

----------------------------------------------------------------------------
(* The X-Request-ID header of one HTTP request, from the requestid          *)
(* middleware to the response.  "" is an absent header.                     *)

ClientIDs == {"", "c1", "c2"}
GeneratedIDs == {"g1", "g2"}
ServiceIDs == {"", "s1"}

\* What the upstream answers with: no X-Request-ID header, the one it was
\* sent, or one of its own.
UpstreamIDs == {"none", "echo", "own"}

Unsent == "unsent"

allButHdr == <<gwVars, pathVars, cacheVars, wsVars, tunVars, brkVars, fwdVars,
               lateVars>>

\* requestid.New: the id is the request's header or else a generated one, and
\* it is set on the response.
RequestIDMiddleware ==
    /\ ridPc = "requestid"
    /\ respHeader' = IF reqHeader # "" THEN reqHeader ELSE ridEnv.generated
    /\ ridPc' = "handler"
    /\ UNCHANGED <<reqHeader, outHeader, ridEnv>>
    /\ UNCHANGED allButHdr

\* handleHTTP: the service's configured headers are set on the inbound request.
HandleHTTPHeaders ==
    /\ ridPc = "handler"
    /\ reqHeader' = IF ridEnv.service # "" THEN ridEnv.service ELSE reqHeader
    /\ ridPc' = "forward"
    /\ UNCHANGED <<respHeader, outHeader, ridEnv>>
    /\ UNCHANGED allButHdr

\* Forward builds the outbound request: the inbound request's headers are
\* copied, then the service's configured headers are set; client.Do sends it.
ForwardSend ==
    /\ ridPc = "forward"
    /\ outHeader' = IF ridEnv.service # "" THEN ridEnv.service ELSE reqHeader
    /\ ridPc' = "upstream"
    /\ UNCHANGED <<reqHeader, respHeader, ridEnv>>
    /\ UNCHANGED allButHdr

\* Forward relays the response: every header of the upstream's response is set
\* on the response to the client.
ForwardRelay ==
    /\ ridPc = "upstream"
    /\ LET up == IF ridEnv.upstream = "echo" THEN outHeader
                 ELSE IF ridEnv.upstream = "own" THEN "u1" ELSE ""
       IN respHeader' = IF up # "" THEN up ELSE respHeader
    /\ ridPc' = "relayed"
    /\ UNCHANGED <<reqHeader, outHeader, ridEnv>>
    /\ UNCHANGED allButHdr

\* client.Do or io.ReadAll fails: Forward returns an error, the response keeps
\* the headers it had.
ForwardFails ==
    /\ ridPc = "upstream"
    /\ ridPc' = "failed"
    /\ UNCHANGED <<reqHeader, respHeader, outHeader, ridEnv>>
    /\ UNCHANGED allButHdr

InitHeader ==
    /\ GatewayIdle /\ PathIdle /\ CacheIdle /\ WSIdle
    /\ TunnelIdle /\ BreakerIdle /\ ForwardIdle /\ LateIdle
    /\ reqHeader \in ClientIDs
    /\ respHeader = ""
    /\ outHeader = Unsent
    /\ ridPc = "requestid"
    /\ ridEnv \in [generated : GeneratedIDs, service : ServiceIDs,
                   upstream : UpstreamIDs]

NextHeader ==
    \/ RequestIDMiddleware
    \/ HandleHTTPHeaders
    \/ ForwardSend
    \/ ForwardRelay
    \/ ForwardFails

SpecHeader == InitHeader /\ [][NextHeader]_vars

\* C11 as stated: every outbound forwarded request carries an X-Request-ID
\* header, equal to the X-Request-ID the response returns to the client,
\* whether the client supplied the header or the gateway generated the id.
C11_OutboundCarriesRequestID ==
    ridPc \in {"relayed", "failed"} =>
        outHeader # "" /\ outHeader = respHeader

\* ---------------------------------------------------------------------------
\* The WebSocket route: RegisterService's route, handleWebSocket's path and
\* ProxyWebSocket's choice of the Socket.IO handshake, in front of the tunnel.
\* Paths are sequences of tokens; "socket.io" is one token.
\* ---------------------------------------------------------------------------

SocketIOPrefix == <<"/", "socket.io">>
SocketIOMark == <<"/", "socket.io", "/">>

\* strings.Contains
Contains(str, substr) ==
    \E i \in 0 .. Len(str) - Len(substr) :
        SubSeq(str, i + 1, i + Len(substr)) = substr

\* handleWebSocket's wsPath: the base path is cut off when strip_base_path is
\* set, and "/socket.io" is put in front unless the path begins with it.
WsPath(sc, path) ==
    LET stripped == IF sc.stripBasePath
                    THEN (IF TrimPrefix(path, sc.basePath) = <<>> THEN <<"/">>
                          ELSE TrimPrefix(path, sc.basePath))
                    ELSE path
    IN IF HasPrefix(stripped, SocketIOPrefix) THEN stripped
       ELSE SocketIOPrefix \o stripped

\* A ProxyWebSocket that never takes the Socket.IO branch.
IsSocketIONever(wsURLPath) == FALSE

\* ProxyWebSocket's isSocketIO, of the path of the URL it dials.
IsSocketIO(wsURLPath) == Contains(wsURLPath, SocketIOMark)

\* The services with enable_websocket and the paths clients open on them.
TunnelServices ==
    {[basePath |-> <<"/", "b">>, stripBasePath |-> st] : st \in BOOLEAN}
    \cup {[basePath |-> <<"/", "socket.io", "x">>, stripBasePath |-> FALSE]}

TunnelPaths(sc) ==
    {sc.basePath \o <<"/", "chat">>}
    \cup (IF sc.basePath = <<"/", "b">>
          THEN {sc.basePath \o <<"/", "socket.io", "/">>} ELSE {})

\* A quiet upstream sends its first frame only after it has received one.
UpstreamMaySend == ~tunnel.quiet \/ writeLog["up"] # <<>>

wsRest == <<pump, errChan, done, closed, readLog, writeLog, firstErr,
            readsAfterErr, readsAfterDone>>

\* The route's handler: handleWebSocket computes the path and ProxyWebSocket,
\* having dialled it, starts with the Socket.IO handshake or with the pumps.
HandleWebSocket ==
    /\ wsMain.pc = "route"
    /\ LET wsPath == WsPath(tunnel, tunnel.path) IN
           /\ tunnel' = [tunnel EXCEPT !.wsPath = wsPath]
           /\ wsMain' = [wsMain EXCEPT
                           !.pc = IF IsSocketIO(wsPath) THEN "hsRead" ELSE "spawn",
                           !.dir = IF IsSocketIO(wsPath) THEN "down" ELSE ""]
    /\ UNCHANGED wsRest
    /\ UNCHANGED <<gwVars, pathVars, cacheVars, hdrVars, brkVars, fwdVars,
                   lateVars>>

TunnelHandshakeRead(f) ==
    /\ wsMain.dir = "down" => UpstreamMaySend
    /\ HandshakeRead(f)

TunnelPumpReadFrame(d, f) ==
    /\ d = "down" => UpstreamMaySend
    /\ PumpReadFrame(d, f)

InitTunnel ==
    /\ GatewayIdle /\ PathIdle /\ CacheIdle /\ HeaderIdle /\ BreakerIdle
    /\ ForwardIdle /\ LateIdle
    /\ \E sc \in TunnelServices, q \in BOOLEAN :
         \E p \in TunnelPaths(sc) :
           tunnel = [basePath |-> sc.basePath, stripBasePath |-> sc.stripBasePath,
                     path |-> p, wsPath |-> <<>>, quiet |-> q]
    /\ wsMain = [pc |-> "route", dir |-> "", frame |-> NoFrame, result |-> "none",
                 err |-> NilErr, wraps |-> NilErr]
    /\ pump = [d \in Dirs |-> [pc |-> "idle", frame |-> NoFrame]]
    /\ errChan = <<>>
    /\ done = FALSE
    /\ closed = [c \in Conns |-> FALSE]
    /\ readLog = [d \in Dirs |-> <<>>]
    /\ writeLog = [d \in Dirs |-> <<>>]
    /\ firstErr = FALSE
    /\ readsAfterErr = [d \in Dirs |-> 0]
    /\ readsAfterDone = [d \in Dirs |-> 0]

NextTunnel ==
    \/ HandleWebSocket
    \/ \E f \in Frames : TunnelHandshakeRead(f)
    \/ HandshakeReadFails
    \/ \E ok \in BOOLEAN : HandshakeWrite(ok)
    \/ Spawn
    \/ \E d \in Dirs : PumpSelect(d)
    \/ \E d \in Dirs, f \in Frames : TunnelPumpReadFrame(d, f)
    \/ \E d \in Dirs, e \in PumpErrs : PumpReadError(d, e)
    \/ \E d \in Dirs, ok \in BOOLEAN : PumpWrite(d, ok)
    \/ MainReceive
    \/ CloseDone
    \/ CloseTarget
    \/ CallerClose

SpecTunnel == InitTunnel /\ [][NextTunnel]_vars

\* The scheduler runs every goroutine that can take a step, the handshake's
\* read deadline expires, and a client that can send its text frame does.
FairTunnel ==
    /\ FairWS
    /\ WF_vars(HandleWebSocket)
    /\ WF_vars(HandshakeReadFails)
    /\ WF_vars(\E ok \in BOOLEAN : HandshakeWrite(ok))
    /\ WF_vars(TunnelPumpReadFrame("up", [type |-> "text", payload |-> "p1"]))

SpecTunnelLive == InitTunnel /\ [][NextTunnel]_vars /\ FairTunnel

ChatPath == <<"/", "b", "/", "chat">>

\* C13: on a WebSocket service with base_path /b, when a client opens /b/chat
\* and the upstream sends nothing before it has received the client's frame,
\* the client's text frame reaches the upstream.
C13_ClientFrameReachesUpstream ==
    (tunnel.quiet /\ tunnel.path = ChatPath) =>
        <>(\E i \in 1 .. Len(writeLog["up"]) : writeLog["up"][i].type = "text")

Spawned == \E d \in Dirs : pump[d].pc # "idle"

InHandshake == wsMain.pc \in {"hsRead", "hsWrite"}

\* C14: on a Socket.IO tunnel the four handshake steps (read from the upstream,
\* write to the client, read from the client, write to the upstream) happen in
\* this order before either pump starts, and nothing else is relayed until the
\* fourth is done.
C14_HandshakeBeforePumps ==
    Contains(tunnel.wsPath, SocketIOMark) =>
        /\ Spawned =>
               /\ Len(readLog["down"]) >= 1 /\ Len(writeLog["down"]) >= 1
               /\ Len(readLog["up"]) >= 1 /\ Len(writeLog["up"]) >= 1
        /\ Len(writeLog["down"]) >= 1 => Len(readLog["down"]) >= 1
        /\ Len(readLog["up"]) >= 1 => Len(writeLog["down"]) >= 1
        /\ Len(writeLog["up"]) >= 1 => Len(readLog["up"]) >= 1
        /\ InHandshake =>
               /\ ~Spawned
               /\ \A d \in Dirs : Len(readLog[d]) <= 1 /\ Len(writeLog[d]) <= 1
               /\ writeLog["up"] = <<>>
        /\ \A d \in Dirs : writeLog[d] # <<>> => writeLog[d][1] = readLog[d][1]

\* C14 happens: the handshake is over, the pumps run and have relayed a
\* further frame to the client.
C14_Witness ==
    /\ Contains(tunnel.wsPath, SocketIOMark)
    /\ Spawned /\ wsMain.pc = "wait"
    /\ Len(writeLog["up"]) = 1 /\ Len(writeLog["down"]) = 2

\* ---------------------------------------------------------------------------
\* The circuit breaker on its own: calls of CircuitBreaker.Execute whose
\* function succeeds or fails, State(), and the clock.
\* ---------------------------------------------------------------------------

MaxCalls == 5
MaxCBTime == 2

Thresholds == {0, 1, 2}
ResetTimeouts == {0, 1, 2}

BreakerSettings ==
    {Config([enableCB |-> TRUE, failureThreshold |-> n, resetTimeout |-> t],
            NoRetry, [enableCache |-> FALSE, cacheTTL |-> 1]) :
        n \in Thresholds, t \in ResetTimeouts}

brkRest == <<items, req, nreq, last, streak, seen200, origin, lim>>
allButBrk == <<pathVars, cacheVars, wsVars, hdrVars, tunVars, fwdVars, lateVars>>

\* When the breaker became Open, if this step opened it.
OpenedAt(from, to) ==
    IF to = "open" /\ from # "open" THEN now ELSE openedAt

\* Counts.onSuccess / Counts.onFailure: the counts with the outcome recorded,
\* as onSuccess / onFailure (and ReadyToTrip) see them.
Recorded(counts, success) ==
    IF success
    THEN [counts EXCEPT !.totalSuccesses = @ + 1, !.consecutiveSuccesses = @ + 1,
                        !.consecutiveFailures = 0]
    ELSE [counts EXCEPT !.totalFailures = @ + 1, !.consecutiveFailures = @ + 1,
                        !.consecutiveSuccesses = 0]

\* Execute, up to the call of the function: beforeRequest admits or refuses.
ExecuteBefore(r) ==
    /\ calls[r].pc = "idle"
    /\ ncalls < MaxCalls
    /\ LET b == BeforeRequest(cb, cfg, now) IN
           /\ cb' = b.cb
           /\ calls' = [calls EXCEPT ![r] =
                          IF b.err = "nil"
                          THEN [pc |-> "running", generation |-> b.generation]
                          ELSE NoCall]
           /\ ev' = [op |-> "before", from |-> cb.state, to |-> b.cb.state,
                     success |-> FALSE, counted |-> FALSE,
                     counts |-> b.cb.counts, err |-> b.err]
           /\ openedAt' = OpenedAt(cb.state, b.cb.state)
    /\ ncalls' = ncalls + 1
    /\ UNCHANGED <<cfg, now, brkRest, allButBrk>>

\* Execute, from the function's return: afterRequest records the outcome.
ExecuteAfter(r, success) ==
    /\ calls[r].pc = "running"
    /\ LET s == CurrentState(cb, cfg, now)
           b == AfterRequest(cb, cfg, calls[r].generation, success, now)
       IN  /\ cb' = b
           /\ ev' = [op |-> "after", from |-> cb.state, to |-> b.state,
                     success |-> success,
                     counted |-> (s.generation = calls[r].generation),
                     counts |-> Recorded(s.counts, success), err |-> "nil"]
           /\ openedAt' = OpenedAt(cb.state, b.state)
    /\ calls' = [calls EXCEPT ![r] = NoCall]
    /\ UNCHANGED <<cfg, now, ncalls, brkRest, allButBrk>>

\* CircuitBreaker.State()
QueryState ==
    /\ cb' = CurrentState(cb, cfg, now)
    /\ cb' # cb
    /\ ev' = [NoEv EXCEPT !.op = "state", !.from = cb.state, !.to = cb'.state]
    /\ openedAt' = OpenedAt(cb.state, cb'.state)
    /\ UNCHANGED <<cfg, now, calls, ncalls, brkRest, allButBrk>>

\* Time passes: a second, or gobreaker's default timeout. The clock is watched
\* for MaxCBTime seconds from the start and after the long wait.
BreakerTick(d) ==
    /\ now + d <= MaxCBTime + DefaultBreakerTimeout
    /\ d = 1 => now # MaxCBTime
    /\ now' = now + d
    /\ ev' = [NoEv EXCEPT !.op = "tick", !.from = cb.state, !.to = cb.state]
    /\ UNCHANGED <<cfg, cb, calls, ncalls, openedAt, brkRest, allButBrk>>

InitBreaker ==
    /\ cfg \in BreakerSettings
    /\ now = 0
    /\ cb = NewCircuitBreaker
    /\ items = [k \in CacheKeys |-> NoItem]
    /\ lim = [reqs |-> 0, inflight |-> 0]
    /\ req = [s \in Slots |-> IdleReq]
    /\ nreq = 0
    /\ last = NoLast
    /\ streak = 0
    /\ seen200 = [k \in CacheKeys |-> NoPrior]
    /\ origin = [k \in CacheKeys |-> [method |-> "", status |-> 0]]
    /\ BreakerIdle
    /\ PathIdle /\ CacheIdle /\ WSIdle /\ HeaderIdle /\ TunnelIdle /\ ForwardIdle
    /\ LateIdle

NextBreaker ==
    \/ \E r \in Runners : ExecuteBefore(r)
    \/ \E r \in Runners, success \in BOOLEAN : ExecuteAfter(r, success)
    \/ QueryState
    \/ \E d \in {1, DefaultBreakerTimeout} : BreakerTick(d)

SpecBreaker == InitBreaker /\ [][NextBreaker]_vars

\* C15 as stated: while Closed, recording an outcome opens the breaker exactly
\* when the counts with that outcome satisfy requests >= failure_threshold
\* and failures/requests >= 0.5, whether the outcome is a success or a failure.
C15_TripsOnAnyOutcome ==
    (ev.op = "after" /\ ev.counted /\ ev.from = "closed") =>
        (ev.to = "open" <=> ReadyToTrip(cfg, ev.counts))

\* What C16 says of a HalfOpen breaker that admits at most n probes.
HalfOpenRules(n) ==
    /\ cb.state = "half-open" => cb.counts.requests <= n
    /\ (ev.op = "before" /\ ev.to = "half-open") =>
           IF ev.err = "nil" THEN ev.counts.requests <= n
           ELSE ev.err = "ErrTooManyRequests" /\ ev.counts.requests >= n
    /\ (ev.op = "after" /\ ev.counted /\ ev.from = "half-open") =>
           ev.to = IF ~ev.success THEN "open"
                   ELSE IF ev.counts.consecutiveSuccesses >= n THEN "closed"
                   ELSE "half-open"
    /\ (ev.from = "half-open" /\ ev.to # "half-open") =>
           ev.op = "after" /\ ev.counted

\* C16 as stated: a HalfOpen breaker with failure_threshold N admits at most N
\* probes, one failed probe opens it, N consecutive successes close it, and it
\* leaves HalfOpen in no other way.
C16_HalfOpenAdmitsThreshold == HalfOpenRules(cfg.failureThreshold)

\* C16, amended: the same with N probes for N >= 1 and one probe for N = 0.
C16_HalfOpenAdmitsMaxRequests == HalfOpenRules(BreakerMaxRequests(cfg))

\* C16 happens: with failure_threshold 2 the second success in a row has
\* closed the HalfOpen breaker.
C16_Witness ==
    /\ cfg.failureThreshold = 2
    /\ ev.op = "after" /\ ev.counted /\ ev.from = "half-open" /\ ev.success
    /\ ev.counts.consecutiveSuccesses = 2 /\ ev.to = "closed"

\* C17 as stated: an Open breaker is still Open before reset_timeout T has
\* elapsed since it opened and HalfOpen after, for every T >= 0, and it never
\* goes from Open to Closed.
C17_OpenUntilResetTimeout ==
    /\ cb.state = "open" =>
           /\ now < openedAt + cfg.resetTimeout => State(cb, cfg, now) = "open"
           /\ now > openedAt + cfg.resetTimeout => State(cb, cfg, now) = "half-open"
    /\ ev.from = "open" => ev.to # "closed"

\* The breaker holds exactly the request's final outcome on top of what it
\* held before: the counts with that outcome when the state stays, and else
\* the transition that outcome causes.
OutcomeRecorded ==
    IF cb.generation = last.cbPre.generation
    THEN cb.state = last.cbPre.cb.state
         /\ cb.counts = Recorded(last.cbPre.cb.counts, last.err = 0)
    ELSE cb.counts = ZeroCounts
         /\ \/ last.err # 0 /\ cb.state = "open"
            \/ last.err = 0 /\ last.cbPre.cb.state = "half-open" /\ cb.state = "closed"

\* The breaker has moved to another generation while the request was in
\* flight and afterRequest leaves it as it is.
OutcomeDropped ==
    last.cbPre.cb.generation # last.cbPre.generation /\ cb = last.cbPre.cb

BreakerAndRetrier ==
    cfg.enableCB /\ cfg.enableRetry /\ last.n >= 1 /\ last.cbSeen # "none"

\* C18 as stated: with breaker and retrier enabled every request is recorded by
\* the breaker exactly once, as the final outcome of its retry chain, and the
\* retrier is not entered when the breaker refuses.
C18_RecordedExactlyOnce ==
    BreakerAndRetrier =>
        IF last.refused THEN last.attempts = 0 /\ last.upstreamCalls = 0
        ELSE last.attempts >= 1 /\ last.cbPre.cb.generation = last.cbPre.generation
             /\ OutcomeRecorded

\* C18, amended: the final outcome is recorded once, or not at all when the
\* breaker has changed state while the request was in flight.
C18_RecordedAtMostOnce ==
    BreakerAndRetrier =>
        IF last.refused THEN last.attempts = 0 /\ last.upstreamCalls = 0
        ELSE last.attempts >= 1 /\ (OutcomeDropped \/ OutcomeRecorded)

\* C18 happens: a chain that failed once and then succeeded has been recorded
\* as one success and no failure.
C18_Witness ==
    /\ BreakerAndRetrier /\ ~last.refused
    /\ last.attempts = 2 /\ last.fails = 1 /\ last.err = 0
    /\ last.cbPre.cb.generation = last.cbPre.generation
    /\ cb.counts.totalSuccesses = last.cbPre.cb.counts.totalSuccesses + 1
    /\ cb.counts.totalFailures = 0

\* ---------------------------------------------------------------------------
\* HTTPProxy.Forward on its own: one call after another, each with what the
\* origin does to it.
\* ---------------------------------------------------------------------------

MaxForwards == 3

\* What can happen to a call of Forward that is not answered from the cache:
\* the target does not parse, the request cannot be built, or one of Outcomes.
ForwardOutcomes ==
    Outcomes \cup {[t |-> "parse", status |-> 0, body |-> "nil"],
                   [t |-> "newreq", status |-> 0, body |-> "nil"]}

\* A Forward that answers 502 when it cannot build the request.
ForwardBuildBadGateway(o) ==
    IF o.t \in {"parse", "newreq"} THEN StatusBadGateway ELSE 0

\* Forward between the cache probe and client.Do: url.Parse and
\* http.NewRequest, each answered with 500 when it fails (0: neither fails).
ForwardBuild(o) ==
    IF o.t \in {"parse", "newreq"} THEN StatusInternalServerError ELSE 0

fwdRest == <<cb, req, nreq, last, streak, seen200, origin, lim>>
allButFwd == <<pathVars, cacheVars, wsVars, hdrVars, tunVars, brkVars, lateVars>>

\* One call of HTTPProxy.Forward, from its entry to its return.
Forward(k, o) ==
    /\ nfwd < MaxForwards
    /\ nfwd' = nfwd + 1
    /\ LET e == ForwardEnter(cfg, items, k, now)
           f == ForwardFinish(cfg, items, k, o, now)
       IN
       IF e.done
       THEN /\ fwd' = [kind |-> k, outcome |-> NoReply, err |-> e.err,
                       status |-> e.status, body |-> e.body, wrote |-> e.wrote,
                       hit |-> e.hit, sent |-> FALSE, before |-> items]
            /\ UNCHANGED items
       ELSE IF ForwardBuild(o) # 0
       THEN /\ fwd' = [kind |-> k, outcome |-> o, err |-> ForwardBuild(o),
                       status |-> 0, body |-> "nil", wrote |-> FALSE,
                       hit |-> FALSE, sent |-> FALSE, before |-> items]
            /\ UNCHANGED items
       ELSE /\ fwd' = [kind |-> k, outcome |-> o, err |-> f.err,
                       status |-> f.status, body |-> f.body, wrote |-> f.wrote,
                       hit |-> FALSE, sent |-> TRUE, before |-> items]
            /\ items' = f.items
    /\ UNCHANGED <<cfg, now, fwdRest, allButFwd>>

\* A second passes.
ForwardTick ==
    /\ now < MaxTime
    /\ now' = now + 1
    /\ UNCHANGED <<cfg, items, fwd, nfwd, fwdRest, allButFwd>>

InitForward ==
    /\ cfg \in {Config(NoBreaker, NoRetry, c) : c \in CacheConfigs}
    /\ now = 0
    /\ items = [k \in CacheKeys |-> NoItem]
    /\ lim = [reqs |-> 0, inflight |-> 0]
    /\ cb = NewCircuitBreaker
    /\ req = [s \in Slots |-> IdleReq]
    /\ nreq = 0
    /\ last = NoLast
    /\ streak = 0
    /\ seen200 = [k \in CacheKeys |-> NoPrior]
    /\ origin = [k \in CacheKeys |-> [method |-> "", status |-> 0]]
    /\ ForwardIdle /\ LateIdle
    /\ PathIdle /\ CacheIdle /\ WSIdle /\ HeaderIdle /\ TunnelIdle /\ BreakerIdle

NextForward ==
    \/ \E k \in Kinds, o \in ForwardOutcomes : Forward(k, o)
    \/ ForwardTick

SpecForward == InitForward /\ [][NextForward]_vars

Called == nfwd >= 1

FailureOutcomes == {"parse", "newreq", "transport", "readfail"}

\* A response read in full is relayed as it is and Forward returns nil.
RelaysWhatItRead ==
    (Called /\ fwd.outcome.t = "resp") =>
        /\ fwd.err = 0 /\ fwd.wrote
        /\ fwd.status = fwd.outcome.status /\ fwd.body = fwd.outcome.body

\* C19 as stated: Forward returns an error only when the target does not
\* parse, the request cannot be built, the transport fails or the body cannot
\* be read; a response read in full, whatever its status, is relayed and
\* Forward returns nil.
C19_ErrorOnlyFromOrigin ==
    /\ (Called /\ fwd.err # 0) => fwd.outcome.t \in FailureOutcomes
    /\ RelaysWhatItRead

\* C19, amended: or when the request carries Upgrade: websocket and Forward
\* returns what the next handler returns.
C19_ErrorFromOriginOrUpgrade ==
    /\ (Called /\ fwd.err # 0) =>
           \/ fwd.outcome.t \in FailureOutcomes
           \/ fwd.kind.upgrade = "websocket" /\ fwd.err = StatusNotFound
    /\ (Called /\ fwd.outcome.t \in FailureOutcomes) => fwd.err # 0
    /\ RelaysWhatItRead

\* C19 happens: an upstream 500 read in full has been relayed and Forward
\* returned nil.
C19_Witness ==
    /\ Called /\ fwd.outcome.t = "resp"
    /\ fwd.outcome.status = StatusInternalServerError
    /\ fwd.err = 0 /\ fwd.wrote /\ fwd.status = StatusInternalServerError

\* C20: when Forward fails for one of these four reasons it returns 500, 500,
\* 502 and 500 in this order, nothing of an upstream response has been written
\* to the client, and the cache is as it was.
C20_FailureWritesNothing ==
    (Called /\ fwd.outcome.t \in FailureOutcomes) =>
        /\ fwd.err = IF fwd.outcome.t = "transport" THEN StatusBadGateway
                     ELSE StatusInternalServerError
        /\ ~fwd.wrote /\ fwd.status = 0 /\ fwd.body = "nil"
        /\ items = fwd.before

\* C20 happens: a GET of a cached key after the entry expired ends in a
\* transport error, with an entry still in the cache.
C20_Witness ==
    /\ Called /\ fwd.outcome.t = "transport" /\ fwd.err = StatusBadGateway
    /\ cfg.enableCache /\ fwd.kind.method = "GET"
    /\ \E k \in CacheKeys : items[k].present

(***************************************************************************)
(* Route registration: Server.registerRoutes and Router.RegisterService     *)
(* fill the fiber app's route stack, and the app hands a request to the     *)
(* first route of the stack that matches it.                                *)

MaxServices == 2

earlyVars == <<gwVars, pathVars, cacheVars, wsVars, hdrVars, tunVars, brkVars, fwdVars>>

EarlyIdle ==
    /\ GatewayIdle /\ PathIdle /\ CacheIdle /\ WSIdle
    /\ HeaderIdle /\ TunnelIdle /\ BreakerIdle /\ ForwardIdle

RegBasePaths == {<<"/", "api">>, <<"/", "api", "/", "v1">>, <<"/", "app">>}

RegServices ==
    [name : {"a", "b"}, basePath : RegBasePaths, enableWebSocket : BOOLEAN]

RegPaths ==
    {<<"/", "health">>, <<"/", "api", "/", "x">>, <<"/", "api", "/", "v1", "/", "x">>,
     <<"/", "app">>, <<"/", "other">>}

\* s.app.Get("/health", s.handleHealthCheck)
HealthRoute == [kind |-> "health", service |-> "", base |-> <<"/", "health">>]

\* The routes one call of RegisterService adds: GET base/* for the WebSocket
\* handler when the service enables it, then ALL base/* for the HTTP handler.
RoutesOf(sc) ==
    (IF sc.enableWebSocket
     THEN <<[kind |-> "ws", service |-> sc.name, base |-> RouteBasePath(sc)]>>
     ELSE <<>>)
    \o <<[kind |-> "http", service |-> sc.name, base |-> RouteBasePath(sc)]>>

\* fiber's match of a path against "/health" and against "base/*".
RouteTakes(r, path) ==
    IF r.kind = "health" THEN DetectionPath(path) = r.base
    ELSE RouteMatches(r.base, path)

\* The app walks the stack from route i on: a WebSocket route takes an upgrade
\* request and passes any other on with c.Next(), an HTTP route passes an
\* upgrade request on and takes any other; with no route left the answer is 404.
RECURSIVE Serve(_, _, _, _)
Serve(stack, i, path, upgrade) ==
    IF i > Len(stack) THEN [service |-> "", via |-> "notfound"]
    ELSE LET r == stack[i] IN
         IF ~RouteTakes(r, path) THEN Serve(stack, i + 1, path, upgrade)
         ELSE IF r.kind = "health" THEN [service |-> "", via |-> "health"]
         ELSE IF (r.kind = "ws") = upgrade
              THEN [service |-> r.service, via |-> r.kind]
              ELSE Serve(stack, i + 1, path, upgrade)

HttpRoutes == {i \in 1 .. Len(routes) : routes[i].kind = "http"}

\* RegisterService(app, svc): the routes are added and nil is returned; there
\* is no other return.
RegisterService(sc) ==
    /\ Cardinality(HttpRoutes) < MaxServices
    /\ routes' = routes \o RoutesOf(sc)
    /\ UNCHANGED <<routed, earlyVars, notReg>>

\* A request arrives and the app dispatches it.
Route(path, upgrade) ==
    /\ LET h == Serve(routes, 1, path, upgrade) IN
         routed' = [path |-> path, upgrade |-> upgrade,
                    service |-> h.service, via |-> h.via]
    /\ UNCHANGED <<routes, earlyVars, notReg>>

InitRegister ==
    /\ EarlyIdle /\ AuthIdle /\ TTLIdle /\ DialIdle /\ GuardIdle
    /\ routes = <<HealthRoute>>
    /\ routed = NoRouted

NextRegister ==
    \/ \E sc \in RegServices : RegisterService(sc)
    \/ \E path \in RegPaths, upgrade \in BOOLEAN : Route(path, upgrade)

SpecRegister == InitRegister /\ [][NextRegister]_vars

Overlap(a, b) == HasPrefix(a, b) \/ HasPrefix(b, a)

\* The registered services whose route matches the path.
MatchingServices(path) == {i \in HttpRoutes : RouteMatches(routes[i].base, path)}

\* C23: RegisterService rejects a service whose base_path equals or overlaps
\* as a prefix the base_path of a registered service, so no two registered
\* base paths overlap, every request path matches at most one service, and a
\* request a service handles goes to the service with the longest matching
\* prefix.
C23_OverlapRejected ==
    /\ \A i, j \in HttpRoutes : i # j => ~Overlap(routes[i].base, routes[j].base)
    /\ routed.via \in {"http", "ws"} =>
          /\ Cardinality(MatchingServices(routed.path)) <= 1
          /\ \E i \in MatchingServices(routed.path) :
                /\ routes[i].service = routed.service
                /\ \A j \in MatchingServices(routed.path) :
                      Len(routes[j].base) <= Len(routes[i].base)

\* No request for /api/v1/x goes to the service registered first at /api when
\* a service registered second at /api/v1 exists.
FirstRegisteredNeverShadows ==
    ~ /\ Len(routes) = 3
      /\ routes[2] = [kind |-> "http", service |-> "a", base |-> <<"/", "api", "/">>]
      /\ routes[3] = [kind |-> "http", service |-> "b", base |-> <<"/", "api", "/", "v1", "/">>]
      /\ routed = [path |-> <<"/", "api", "/", "v1", "/", "x">>, upgrade |-> FALSE,
                   service |-> "a", via |-> "http"]

(***************************************************************************)
(* Authentication: the server's middleware chain in front of the routes.    *)
(* recover, compress and requestid pass a request on and return what the    *)
(* next handler returns; then come Logger, JWT when enabled, APIKey when     *)
(* enabled, and the route's handler.                                        *)

StatusUnauthorized == 401

AuthPaths == {"/health", "/metrics", "/api/x"}

\* Authorization headers: none, one without the Bearer prefix, a token that
\* does not verify, a token signed with a non-HMAC method, a valid token.
Authorizations == {"", "Basic abc", "Bearer forged", "Bearer rs256", "Bearer good"}

ValidKeys == {"k1"}
APIKeys == {"", "k0", "k1"}

\* middleware.JWT up to its c.Next(): the error it returns, 0 when it goes on.
JWT(authorization) ==
    IF authorization = "" THEN StatusUnauthorized
    ELSE IF authorization \notin {"Bearer forged", "Bearer rs256", "Bearer good"}
         THEN StatusUnauthorized
    ELSE IF authorization # "Bearer good" THEN StatusUnauthorized
    ELSE 0

\* middleware.APIKey up to its c.Next().
APIKey(apiKey, validKeys) ==
    IF apiKey = "" THEN StatusUnauthorized
    ELSE IF apiKey \in validKeys THEN 0
    ELSE StatusUnauthorized

\* The handler a path's route runs: it answers 200; a service's handler
\* contacts the upstream.
RouteHandler(path) ==
    [err |-> 0, status |-> StatusOK,
     ran |-> IF path = "/health" THEN "health"
             ELSE IF path = "/metrics" THEN "metrics" ELSE "service",
     upstream |-> path \notin {"/health", "/metrics"}]

\* What JWT, APIKey and the route's handler return to Logger: a check that
\* fails returns its error and nothing behind it runs.
Secured(c, path, authorization, apiKey) ==
    LET refusal(e) == [err |-> e, status |-> StatusOK, ran |-> "none",
                       upstream |-> FALSE]
        j == IF c.enableJWT THEN JWT(authorization) ELSE 0
        k == IF c.enableAPIKey THEN APIKey(apiKey, ValidKeys) ELSE 0
    IN IF j # 0 THEN refusal(j)
       ELSE IF k # 0 THEN refusal(k)
       ELSE RouteHandler(path)

\* middleware.Logger: err := c.Next(); for /health and /metrics it returns nil,
\* for any other path it returns err.
Logger(path, r) ==
    IF path = "/health" \/ path = "/metrics" THEN [r EXCEPT !.err = 0] ELSE r

\* The app: an error returned by the chain goes to fiber's ErrorHandler, which
\* answers with the error's code; otherwise the response is as the handlers
\* left it, and a response nobody touched has status 200.
AppHandler(r) == IF r.err # 0 THEN [r EXCEPT !.status = r.err] ELSE r

\* One request goes through the chain.
Serve401(path, authorization, apiKey) ==
    /\ LET r == AppHandler(Logger(path, Secured(sec, path, authorization, apiKey)))
       IN served' = [path |-> path, authorization |-> authorization,
                     apiKey |-> apiKey, status |-> r.status, ran |-> r.ran,
                     upstream |-> r.upstream]
    /\ UNCHANGED <<sec, earlyVars, notAuth>>

InitAuth ==
    /\ EarlyIdle /\ RegisterIdle /\ TTLIdle /\ DialIdle /\ GuardIdle
    /\ sec \in [enableJWT : BOOLEAN, enableAPIKey : BOOLEAN]
    /\ served = NoServed

NextAuth ==
    \E path \in AuthPaths, authorization \in Authorizations, apiKey \in APIKeys :
        Serve401(path, authorization, apiKey)

SpecAuth == InitAuth /\ [][NextAuth]_vars

JWTFails == sec.enableJWT /\ served.authorization # "Bearer good"
APIKeyFails == sec.enableAPIKey /\ served.apiKey \notin ValidKeys

\* C24: for every request path, /health and /metrics included: when JWT auth
\* is enabled and the bearer token is missing or invalid, or API-key auth is
\* enabled and X-API-Key is missing or not in the list, the client gets 401,
\* no later handler runs and no upstream is contacted; with both enabled a
\* request passes only if both checks pass.
C24_FailedAuthGets401 ==
    served.path # "" =>
        /\ (JWTFails \/ APIKeyFails) =>
              /\ served.status = StatusUnauthorized
              /\ served.ran = "none" /\ ~served.upstream
        /\ served.ran # "none" => ~JWTFails /\ ~APIKeyFails

\* For a path other than /health and /metrics a failed check gives 401, and
\* on every path a failed check stops the chain.
FailedAuthStopsChain ==
    served.path # "" =>
        /\ (JWTFails \/ APIKeyFails) =>
              /\ served.path \notin {"/health", "/metrics"} =>
                    served.status = StatusUnauthorized
              /\ served.ran = "none" /\ ~served.upstream
        /\ served.ran # "none" => ~JWTFails /\ ~APIKeyFails

(***************************************************************************)
(* The cache with every kind of duration: callers of SetWithExpiration,     *)
(* Get, Delete, Clear and Close, and the sweeper.  Close sends on the       *)
(* unbuffered channel stopCleanup: the caller is blocked until the sweeper, *)
(* back in its select, receives.                                            *)

MaxClosers == 2

\* A negative duration, zero, and a positive one.
Durations == {-1, 0, 1}

ttlRest == <<gwRest, pathVars, wsVars, hdrVars, tunVars, brkVars, fwdVars, notTTL>>

\* SetWithExpiration(k, v, d), up to c.mu.Lock().
SetWithExpirationRead(g, k, v, d) ==
    /\ setting[g].pc = "idle"
    /\ setting' = [setting EXCEPT ![g] =
                     [pc |-> "lock", key |-> k, value |-> v, at |-> now,
                      expiration |-> ExpirationOf(defaultExpiration, d, now)]]
    /\ asked' = [asked EXCEPT !.set[g] = d]
    /\ got' = NoGot /\ swept' = NoSwept
    /\ UNCHANGED <<now, items, defaultExpiration, cleanup, written, closer>>
    /\ UNCHANGED ttlRest

\* SetWithExpiration, under the lock.
SetWithExpirationWrite(g) ==
    /\ setting[g].pc = "lock"
    /\ items' = [items EXCEPT ![setting[g].key] =
                   [present |-> TRUE, value |-> setting[g].value,
                    expiration |-> setting[g].expiration]]
    /\ written' = [written EXCEPT ![setting[g].key] =
                     [valid |-> TRUE, value |-> setting[g].value,
                      at |-> setting[g].at]]
    /\ asked' = [asked EXCEPT !.key[setting[g].key] = asked.set[g],
                              !.set[g] = 0]
    /\ setting' = [setting EXCEPT ![g] = NoSet]
    /\ got' = NoGot /\ swept' = NoSwept
    /\ UNCHANGED <<now, defaultExpiration, cleanup, closer>>
    /\ UNCHANGED ttlRest

\* Get(k), under the read lock.
GetItem(k) ==
    /\ LET g == Get(items, k, now)
       IN got' = [n |-> 1, key |-> k, value |-> g.value, found |-> g.found,
                  at |-> now]
    /\ swept' = NoSwept
    /\ UNCHANGED <<now, items, defaultExpiration, setting, cleanup, written,
                   asked, closer>>
    /\ UNCHANGED ttlRest

\* Delete(k)
DeleteItem(k) ==
    /\ items[k].present
    /\ items' = [items EXCEPT ![k] = NoItem]
    /\ written' = [written EXCEPT ![k] = NoWrite]
    /\ asked' = [asked EXCEPT !.key[k] = 0]
    /\ got' = NoGot /\ swept' = NoSwept
    /\ UNCHANGED <<now, defaultExpiration, setting, cleanup, closer>>
    /\ UNCHANGED ttlRest

\* Clear()
ClearItems ==
    /\ \E k \in Keys : items[k].present
    /\ items' = [k \in Keys |-> NoItem]
    /\ written' = [k \in Keys |-> NoWrite]
    /\ asked' = [asked EXCEPT !.key = [k \in Keys |-> 0]]
    /\ got' = NoGot /\ swept' = NoSwept
    /\ UNCHANGED <<now, defaultExpiration, setting, cleanup, closer>>
    /\ UNCHANGED ttlRest

\* The sweeper's select takes case <-ticker.C: deleteExpired reads the clock.
SweepStart ==
    /\ cleanup.pc = "select"
    /\ cleanup' = [pc |-> "lock", now |-> now]
    /\ got' = NoGot /\ swept' = NoSwept
    /\ UNCHANGED <<now, items, defaultExpiration, setting, written, asked, closer>>
    /\ UNCHANGED ttlRest

\* deleteExpired, under the lock, with the clock reading it took before.
SweepLocked ==
    /\ cleanup.pc = "lock"
    /\ items' = DeleteExpired(items, cleanup.now)
    /\ swept' = [n |-> 1, at |-> cleanup.now, lockAt |-> now,
                 before |-> items, after |-> items']
    /\ cleanup' = [pc |-> "select", now |-> 0]
    /\ got' = NoGot
    /\ UNCHANGED <<now, defaultExpiration, setting, written, asked, closer>>
    /\ UNCHANGED ttlRest

\* Close() is called: the caller blocks on c.stopCleanup <- true.
CloseCall(c) ==
    /\ closer[c] = "idle"
    /\ closer' = [closer EXCEPT ![c] = "send"]
    /\ got' = NoGot /\ swept' = NoSwept
    /\ UNCHANGED <<now, items, defaultExpiration, setting, cleanup, written, asked>>
    /\ UNCHANGED ttlRest

\* The sweeper's select takes case <-c.stopCleanup: it returns, and the
\* caller's send and with it Close() return.
CloseReceive(c) ==
    /\ closer[c] = "send"
    /\ cleanup.pc = "select"
    /\ cleanup' = [pc |-> "stopped", now |-> 0]
    /\ closer' = [closer EXCEPT ![c] = "returned"]
    /\ got' = NoGot /\ swept' = NoSwept
    /\ UNCHANGED <<now, items, defaultExpiration, setting, written, asked>>
    /\ UNCHANGED ttlRest

\* A second passes.
ClockTick ==
    /\ now < MaxClock
    /\ now' = now + 1
    /\ got' = NoGot /\ swept' = NoSwept
    /\ UNCHANGED <<items, defaultExpiration, setting, cleanup, written, asked, closer>>
    /\ UNCHANGED ttlRest

\* cache.New(ttl): the sweeper's time.NewTicker(cleanupInterval) panics for a
\* ttl that is not positive, so a cache in use has ttl > 0.  One caller of
\* SetWithExpiration at a time runs against the sweeper.
InitItems(closers) ==
    /\ GatewayRestIdle /\ PathIdle /\ WSIdle
    /\ HeaderIdle /\ TunnelIdle /\ BreakerIdle /\ ForwardIdle
    /\ RegisterIdle /\ AuthIdle /\ DialIdle /\ GuardIdle
    /\ now = 0
    /\ items = [k \in Keys |-> NoItem]
    /\ defaultExpiration \in 1 .. MaxTTL
    /\ setting = [g \in {1} |-> NoSet]
    /\ cleanup = [pc |-> "select", now |-> 0]
    /\ written = [k \in Keys |-> NoWrite]
    /\ got = NoGot
    /\ asked = [set |-> [g \in {1} |-> 0], key |-> [k \in Keys |-> 0]]
    /\ swept = NoSwept
    /\ closer = [c \in 1 .. closers |-> "idle"]

\* The cache in use, before any Close.
InitTTL == InitItems(0)

NextTTL ==
    \/ \E g \in DOMAIN setting, k \in Keys, v \in Values, d \in Durations :
          SetWithExpirationRead(g, k, v, d)
    \/ \E g \in DOMAIN setting : SetWithExpirationWrite(g)
    \/ \E k \in Keys : GetItem(k)
    \/ \E k \in Keys : DeleteItem(k)
    \/ ClearItems
    \/ SweepStart
    \/ SweepLocked
    \/ ClockTick

SpecTTL == InitTTL /\ [][NextTTL]_vars

\* The duration an entry written with duration d lives.
Lifetime(d) == IF d = 0 THEN defaultExpiration ELSE d

\* C25: an entry stored by SetWithExpiration(k, v, d) expires after the default
\* TTL when d = 0 and after d when d > 0, and never expires when d < 0: until
\* a Delete, a Clear or another write of k it stays in the map whatever the
\* sweeper does, and Get returns it.
C25_DurationDecidesExpiry ==
    \A k \in DOMAIN written :
        written[k].valid =>
            LET w == written[k]
                d == asked.key[k]
            IN IF d < 0
               THEN /\ items[k].present /\ items[k].value = w.value
                    /\ (got.n = 1 /\ got.key = k) =>
                           got.found /\ got.value = w.value
               ELSE (got.n = 1 /\ got.key = k) =>
                      /\ got.at < w.at + Lifetime(d) =>
                             got.found /\ got.value = w.value
                      /\ got.at > w.at + Lifetime(d) =>
                             ~got.found /\ got.value = "nil"

\* C25 happens: an entry written with a negative duration is still in the map
\* after a sweep that ran later than the default TTL after the write.
C25_Witness ==
    \E k \in DOMAIN written :
        /\ written[k].valid /\ asked.key[k] < 0
        /\ swept.n = 1 /\ swept.at > written[k].at + defaultExpiration
        /\ swept.after[k].present /\ items[k].present

Removed(k) == swept.before[k].present /\ ~swept.after[k].present

\* C26: under every interleaving a sweep removes exactly the entries whose
\* expiry time had passed when the sweep read the clock and leaves every other
\* entry as it was: no entry is removed whose expiry time has not passed when
\* the sweep holds the lock, none without an expiry time, and none that was
\* written again with an expiry time still ahead before the sweep took the lock.
C26_SweepRemovesExpiredOnly ==
    swept.n = 1 =>
        \A k \in DOMAIN swept.before :
            LET it == swept.before[k] IN
            /\ Removed(k) <=> (it.present /\ it.expiration > 0
                                /\ it.expiration < swept.at)
            /\ ~Removed(k) => swept.after[k] = it
            /\ Removed(k) => it.expiration < swept.lockAt
            /\ (it.present /\ it.expiration = 0) => ~Removed(k)

\* C26 happens: between the sweep's clock reading and its taking the lock the
\* clock advanced and the key was written again, and the sweep left the new
\* entry alone.
C26_Witness ==
    /\ swept.n = 1 /\ swept.lockAt > swept.at
    /\ \E k \in DOMAIN swept.before :
          /\ swept.before[k].present /\ swept.after[k].present
          /\ swept.before[k].expiration > swept.at
          /\ written[k].valid /\ written[k].at >= swept.at
          /\ written[k].at > 0

\* The cache with callers of Close.
InitStop == InitItems(MaxClosers)

NextStop ==
    \/ \E g \in DOMAIN setting, k \in Keys, v \in Values, d \in Durations :
          SetWithExpirationRead(g, k, v, d)
    \/ \E g \in DOMAIN setting : SetWithExpirationWrite(g)
    \/ SweepStart
    \/ SweepLocked
    \/ \E c \in DOMAIN closer : CloseCall(c)
    \/ \E c \in DOMAIN closer : CloseReceive(c)
    \/ ClockTick

SpecStop == InitStop /\ [][NextStop]_vars

\* A goroutine waiting for Cache.mu gets it; and the sweeper's select, which
\* chooses at random among the cases that are ready, takes the receive from
\* stopCleanup sooner or later when a sender is waiting each time it selects.
FairStop ==
    /\ WF_vars(SweepLocked)
    /\ WF_vars(\E g \in DOMAIN setting : SetWithExpirationWrite(g))
    /\ \A c \in 1 .. MaxClosers : SF_vars(CloseReceive(c))

SpecStopLive == InitStop /\ [][NextStop]_vars /\ FairStop

Terminated == cleanup.pc = "stopped"

\* C27: after Close() is called the sweeper eventually terminates and that
\* call of Close() returns; a terminated sweeper performs no sweep.
C27_CloseStopsSweeper ==
    /\ \A c \in 1 .. MaxClosers :
          (closer[c] = "send") ~> (Terminated /\ closer[c] = "returned")
    /\ [](Terminated => swept.n = 0)

\* Once a call of Close() is waiting the sweeper eventually terminates, one
\* call of Close() has returned by then, and a terminated sweeper performs no
\* sweep.
FirstCloseStopsSweeper ==
    /\ (\E c \in 1 .. MaxClosers : closer[c] = "send")
          ~> (Terminated /\ \E c \in 1 .. MaxClosers : closer[c] = "returned")
    /\ [](Terminated => swept.n = 0)

\* C37: every call of Cache.Close() returns: a second Close() on the same
\* cache, or a Close() made after the sweeper has stopped, does not block its
\* caller forever.
C37_EveryCloseReturns ==
    \A c \in 1 .. MaxClosers : (closer[c] = "send") ~> (closer[c] = "returned")

\* At most one call of Close() ever returns, and a call that is waiting once
\* the sweeper has stopped waits for ever.
OnlyOneCloseReturns ==
    /\ [](Cardinality({c \in 1 .. MaxClosers : closer[c] = "returned"}) <= 1)
    /\ \A c \in 1 .. MaxClosers :
          []((Terminated /\ closer[c] = "send") => [](closer[c] = "send"))

(***************************************************************************)
(* The WebSocket dial: the route's handler prepares the headers and the     *)
(* path, handleWebSocket rewrites the path, and ProxyWebSocket builds the   *)
(* URL, the header set and the subprotocols it dials the upstream with.     *)
(* A header that is absent has the value "".                                *)

CanonicalWebSocketHeaders ==
    {"Sec-WebSocket-Key", "Sec-WebSocket-Version", "Sec-WebSocket-Extensions",
     "Sec-WebSocket-Protocol"}

ClientHeaderNames ==
    CanonicalWebSocketHeaders
    \cup {"Upgrade", "Connection", "Host", "X-Source", "Authorization"}

HeaderNames ==
    ClientHeaderNames \cup {"X-Real-IP", "X-Forwarded-For", "X-Original-Query"}

\* strings.HasPrefix(strings.ToLower(key), "sec-websocket-") or
\* strings.EqualFold(key, "Upgrade") or strings.EqualFold(key, "Connection")
IsWebSocketHeader(name) ==
    name \in CanonicalWebSocketHeaders \/ name \in {"Upgrade", "Connection"}

\* The headers of a client's upgrade request.
ClientHeaders ==
    {[name \in ClientHeaderNames |->
         IF name = "Upgrade" THEN "websocket"
         ELSE IF name = "Connection" THEN "Upgrade"
         ELSE IF name = "Sec-WebSocket-Key" THEN "key1"
         ELSE IF name = "Sec-WebSocket-Version" THEN "13"
         ELSE IF name = "Sec-WebSocket-Extensions" THEN ext
         ELSE IF name = "Sec-WebSocket-Protocol" THEN proto
         ELSE IF name = "Host" THEN "gw:80"
         ELSE IF name = "X-Source" THEN src
         ELSE auth] :
        ext \in {"", "permessage-deflate"}, proto \in {"", "chat", "[a, b]"},
        src \in {"", "client"}, auth \in {"", "Bearer t"}}

ClientIP == "10.0.0.1"
TargetHost == "u:9"

\* The route handler's headers map: the request's non-empty headers except
\* the WebSocket ones, the four canonical WebSocket headers put back from the
\* request, X-Real-IP, X-Forwarded-For and, for a non-empty query,
\* X-Original-Query.
RouterHeaders(h, query) ==
    [name \in HeaderNames |->
        IF name = "X-Real-IP" THEN ClientIP
        ELSE IF name = "X-Forwarded-For" THEN ClientIP
        ELSE IF name = "X-Original-Query" THEN query
        ELSE IF name \in CanonicalWebSocketHeaders THEN h[name]
        ELSE IF IsWebSocketHeader(name) THEN ""
        ELSE h[name]]

\* A ProxyWebSocket that copies the WebSocket headers too.
DialHeaderKeepsWebSocket(headers, host) ==
    [name \in HeaderNames |->
        IF name = "X-Source" THEN "api-gateway"
        ELSE IF name = "Host" THEN host
        ELSE IF name = "X-Original-Query" THEN ""
        ELSE headers[name]]

\* ProxyWebSocket's header for the dial: X-Original-Query is taken out, empty
\* values and the WebSocket headers are skipped, the rest is copied, and then
\* X-Source and Host are set.
DialHeader(headers, host) ==
    [name \in HeaderNames |->
        IF name = "X-Source" THEN "api-gateway"
        ELSE IF name = "Host" THEN host
        ELSE IF name = "X-Original-Query" THEN ""
        ELSE IF headers[name] = "" \/ IsWebSocketHeader(name) THEN ""
        ELSE headers[name]]

\* A bracketed list is split at its commas and trimmed.
SplitProtocols(proto) == IF proto = "[a, b]" THEN <<"a", "b">> ELSE <<proto>>

\* dialer.Subprotocols: none for a Socket.IO URL, else what the request's
\* Sec-WebSocket-Protocol offers.
Subprotocols(headers, isSocketIO) ==
    IF isSocketIO \/ headers["Sec-WebSocket-Protocol"] = "" THEN <<>>
    ELSE SplitProtocols(headers["Sec-WebSocket-Protocol"])

\* The route handler's fullPath: c.Path() and, behind "?", a non-empty query.
FullPath(path, query) == IF query # "" THEN path \o <<"?", query>> ELSE path

\* url.Parse(path): the part before the first "?" and the part behind it.
ParsedPath(str) ==
    IF \E i \in 1 .. Len(str) : str[i] = "?"
    THEN LET i == CHOOSE j \in 1 .. Len(str) :
                     str[j] = "?" /\ \A l \in 1 .. j - 1 : str[l] # "?"
         IN [Path |-> SubSeq(str, 1, i - 1),
             RawQuery |-> IF i < Len(str) THEN str[i + 1] ELSE ""]
    ELSE [Path |-> str, RawQuery |-> ""]

\* ProxyWebSocket's queryParams: the path's query when it has one, else the
\* X-Original-Query header.
QueryParams(headerQuery, rawQuery) ==
    IF rawQuery # "" THEN rawQuery ELSE headerQuery

DialServices == [basePath : {<<"/", "ws">>, <<"ws">>}, stripBasePath : BOOLEAN]

DialPaths ==
    {<<"/", "ws">>, <<"/", "ws", "/", "chat">>, <<"/", "ws", "/", "socket.io">>,
     <<"/", "ws", "/", "socket.io", "/">>}

DialQueries == {"", "x=1"}

\* One upgrade request on the service's WebSocket route, up to the dial.
DialWebSocket(sc, path, query, h) ==
    /\ LET headers == RouterHeaders(h, query)
           wsPath == WsPath(sc, FullPath(path, query))
           slashed == IF wsPath # <<>> /\ ~HasPrefix(wsPath, <<"/">>)
                      THEN <<"/">> \o wsPath ELSE wsPath
           parsed == ParsedPath(slashed)
           isSocketIO == IsSocketIO(parsed.Path)
       IN dial' = [n |-> 1, svc |-> sc, path |-> path, query |-> query,
                   request |-> h,
                   urlPath |-> parsed.Path,
                   urlQuery |-> QueryParams(headers["X-Original-Query"],
                                            parsed.RawQuery),
                   header |-> DialHeader(headers, TargetHost),
                   subprotocols |-> Subprotocols(headers, isSocketIO),
                   isSocketIO |-> isSocketIO]
    /\ UNCHANGED <<earlyVars, notDial>>

InitDial ==
    /\ EarlyIdle /\ RegisterIdle /\ AuthIdle /\ TTLIdle /\ GuardIdle
    /\ dial = NoDial

NextDial ==
    \E sc \in DialServices, path \in DialPaths, query \in DialQueries,
       h \in ClientHeaders :
        DialWebSocket(sc, path, query, h)

SpecDial == InitDial /\ [][NextDial]_vars

WithoutBasePath(sc, path) ==
    LET base == TrimSuffix(RouteBasePath(sc), <<"/">>)
        rest == TrimPrefix(path, base)
    IN IF rest = <<>> THEN <<"/">> ELSE rest

\* C29: the path of the upstream WebSocket URL is the inbound path, with
\* base_path removed iff strip_base_path is set and nothing else added or
\* removed, and its query string is the inbound query string, once.
C29_PathIsInboundMinusBasePath ==
    dial.n = 1 =>
        /\ dial.urlPath = IF dial.svc.stripBasePath
                          THEN WithoutBasePath(dial.svc, dial.path)
                          ELSE dial.path
        /\ dial.urlQuery = dial.query
        /\ \A i \in 1 .. Len(dial.urlPath) : dial.urlPath[i] # "?"

\* The query string of the URL is the inbound query string, once.
QueryAppearsOnce ==
    dial.n = 1 =>
        /\ dial.urlQuery = dial.query
        /\ \A i \in 1 .. Len(dial.urlPath) : dial.urlPath[i] # "?"

(***************************************************************************)
(* The Socket.IO handshake and the peers' silence.  The read from the       *)
(* upstream runs under the 5 s read deadline ProxyWebSocket sets, so it     *)
(* returns; the read from the client runs under no deadline and returns     *)
(* only when the client sends a frame or its connection breaks.             *)

\* The upstream read of the handshake returns, with a frame or an error.
TargetReadReturns ==
    /\ wsMain.dir = "down"
    /\ (\E f \in Frames : HandshakeRead(f)) \/ HandshakeReadFails

FairHandshake ==
    /\ FairWS
    /\ WF_vars(TargetReadReturns)
    /\ WF_vars(\E ok \in BOOLEAN : HandshakeWrite(ok))

SpecHandshakeLive == InitWS /\ [][NextWS]_vars /\ FairHandshake

\* C30: the Socket.IO handshake always ends, whichever peer stays silent: each
\* step completes or fails, and a failed step makes ProxyWebSocket return an
\* error.
C30_HandshakeAlwaysEnds ==
    /\ InHandshake ~> ~InHandshake
    /\ []((wsMain.pc = "closeTarget" /\ ~done /\ ~firstErr) => wsMain.result = "err")

\* The wait for the upstream's initial frame always ends, and a failed step of
\* the handshake makes ProxyWebSocket return an error.
UpstreamSilenceEnds ==
    /\ (wsMain.pc = "hsRead" /\ wsMain.dir = "down")
          ~> ~(wsMain.pc = "hsRead" /\ wsMain.dir = "down")
    /\ []((wsMain.pc = "closeTarget" /\ ~done /\ ~firstErr) => wsMain.result = "err")

----------------------------------------------------------------------------
(* Rate limiter: middleware.RateLimit and RateLimiter.isLimited             *)
(*                                                                          *)
(* The middleware keeps, per client IP, the number of requests of the       *)
(* current window and the time the window expires. isLimited runs under the *)
(* limiter's mutex, clock reading included, so one request is one step. The *)
(* cleanup goroutine removes expired entries from time to time.             *)

StatusTooManyRequests == 429

MaxLimit == 2
MaxWindow == 1
MaxRateClock == 3
MaxCount == 4

\* The values c.IP() returns; the empty one is replaced by "unknown".
ClientAddrs == {"", "10.0.0.1"}

ClientKey(ip) == IF ip = "" THEN "unknown" ELSE ip

RateKeys == {ClientKey(ip) : ip \in ClientAddrs}

NoData == [exists |-> FALSE, Count |-> 0, Expiration |-> 0]

NoWindow == [open |-> FALSE, expires |-> 0, seen |-> 0, admitted |-> 0]

\* time.Time.After
After(t, u) == t > u

\* RateLimiter.isLimited: whether the entry is replaced by a new one, the
\* entry after the call, and the value returned.
StartsEntry(data) == ~data.exists \/ After(rl.now, data.Expiration)

EntryAfter(data) ==
    IF StartsEntry(data)
    THEN [exists |-> TRUE, Count |-> 1, Expiration |-> rl.now + rl.window]
    ELSE [data EXCEPT !.Count = @ + 1]

IsLimited(data) ==
    IF StartsEntry(data) THEN FALSE ELSE EntryAfter(data).Count > rl.max

\* The window a request of this IP falls in: a new one when the IP has none
\* or the previous one has expired.
WindowAfter(w, admit) ==
    IF ~w.open \/ After(rl.now, w.expires)
    THEN [open |-> TRUE, expires |-> rl.now + rl.window, seen |-> 1,
          admitted |-> IF admit THEN 1 ELSE 0]
    ELSE [w EXCEPT !.seen = @ + 1, !.admitted = @ + IF admit THEN 1 ELSE 0]

\* The handler RateLimit returns, for one request of the client at ip.
RateLimit(ip) ==
    LET key == ClientKey(ip)
        data == ips[key]
        isLimited == IsLimited(data)
        w == windows[key]
    IN  /\ data.Count < MaxCount
        /\ ips' = [ips EXCEPT ![key] = EntryAfter(data)]
        /\ windows' = [windows EXCEPT ![key] = WindowAfter(w, ~isLimited)]
        /\ limited' = [n |-> 1, ip |-> key,
                       status |-> IF isLimited THEN StatusTooManyRequests
                                  ELSE StatusOK,
                       newWindow |-> ~w.open \/ After(rl.now, w.expires),
                       before |-> ips]
        /\ UNCHANGED rl
        /\ UNCHANGED <<earlyVars, notRate>>

\* RateLimiter.removeExpired, run by the cleanup goroutine on its ticker.
RemoveExpired ==
    /\ \E key \in RateKeys : ips[key].exists /\ After(rl.now, ips[key].Expiration)
    /\ ips' = [key \in RateKeys |->
                  IF ips[key].exists /\ After(rl.now, ips[key].Expiration)
                  THEN NoData ELSE ips[key]]
    /\ limited' = NoLimited
    /\ UNCHANGED <<rl, windows>>
    /\ UNCHANGED <<earlyVars, notRate>>

RateTick ==
    /\ rl.now < MaxRateClock
    /\ rl' = [rl EXCEPT !.now = @ + 1]
    /\ limited' = NoLimited
    /\ UNCHANGED <<ips, windows>>
    /\ UNCHANGED <<earlyVars, notRate>>

\* NewRateLimiter(max, windowSeconds)
InitRate ==
    /\ EarlyIdle /\ FourIdle /\ TimeoutIdle /\ GateIdle
    /\ rl \in [max : 0 .. MaxLimit, window : 0 .. MaxWindow, now : {0}]
    /\ ips = [key \in RateKeys |-> NoData]
    /\ limited = NoLimited
    /\ windows = [key \in RateKeys |-> NoWindow]

NextRate ==
    \/ \E ip \in ClientAddrs : RateLimit(ip)
    \/ RemoveExpired
    \/ RateTick

SpecRate == InitRate /\ [][NextRate]_vars

\* What C31 says of a limiter, whatever its limit.
WindowRules ==
    /\ \A key \in RateKeys : windows[key].admitted <= rl.max
    /\ limited.n = 1 =>
          /\ (limited.status = StatusTooManyRequests)
                <=> (windows[limited.ip].seen > rl.max)
          /\ limited.status \in {StatusOK, StatusTooManyRequests}
          /\ limited.newWindow => ips[limited.ip].Count = 1
          /\ \A other \in RateKeys \ {limited.ip} :
                ips[other] = limited.before[other]

\* C31: for every client IP, every limit max >= 0 and every window, RateLimit
\* admits at most max requests of that IP within the window and rejects every
\* further one with 429; the first request after the window has expired is
\* counted in a new window; requests of one IP never change the admission of
\* another IP.
C31_AtMostMaxPerWindow == rl.max >= 0 => WindowRules

\* The same for limits of at least one.
PositiveLimitKept == rl.max >= 1 => WindowRules

\* A request beyond the limit has been rejected while the other IP's window
\* was open.
OverLimitRejected ==
    /\ limited.n = 1 /\ limited.status = StatusTooManyRequests
    /\ \E other \in RateKeys \ {limited.ip} : windows[other].open

----------------------------------------------------------------------------
(* Timeout.Execute                                                          *)
(*                                                                          *)
(* Execute makes a context that expires after the duration, starts a        *)
(* goroutine that runs fn and sends its result on the buffered channel      *)
(* done, and selects between done and the context. A select that is already *)
(* waiting is decided by the first of the two events; a select that is      *)
(* reached when both cases are ready takes either. context.WithTimeout with *)
(* a duration that is not positive returns a context that is already done.  *)

\* fiber.NewError(fiber.StatusGatewayTimeout, "Request timed out")
ErrGatewayTimeout == "504 Request timed out"

DoneUnbuffered == 0

\* make(chan error, 1)
DoneCapacity == 1

MaxTimeout == 2
MaxTimeoutClock == 3

\* What fn returns: nil or an error of its own.
FnResults == {"nil", "fnErr"}

TimeoutDurations == -1 .. MaxTimeout

NoFinish == -1

\* ctx.Done() is ready
CtxDone == tmo.now >= tmo.d

\* The case done of the select is ready: a value is buffered, or the goroutine
\* is waiting to send.
DoneReceivable == Len(tmo.done) > 0 \/ tmo.fn = "blocked"

Returns(t, result) ==
    [t EXCEPT !.pc = "returned", !.result = result, !.returns = @ + 1,
              !.returnedAt = t.now]

\* The caller reaches the select (46): it takes a ready case, either of the two
\* when both are ready, and waits when none is.
EnterSelect ==
    /\ tmo.pc = "start"
    /\ \/ /\ DoneReceivable
          /\ tmo' = [Returns(tmo, tmo.out) EXCEPT
                        !.raced = CtxDone,
                        !.done = <<>>,
                        !.fn = IF tmo.fn = "blocked" THEN "exited" ELSE @]
       \/ /\ CtxDone
          /\ tmo' = [Returns(tmo, ErrGatewayTimeout) EXCEPT !.raced = DoneReceivable]
       \/ /\ ~DoneReceivable /\ ~CtxDone
          /\ tmo' = [tmo EXCEPT !.pc = "select"]
    /\ UNCHANGED <<earlyVars, notTmo>>

\* The goroutine (41-43): fn returns r and the result is sent on done. A caller
\* waiting in the select receives it; otherwise it is buffered when the
\* channel has room, and the goroutine waits when it has none.
FnFinish(r) ==
    /\ tmo.fn = "running"
    /\ LET t == [tmo EXCEPT !.out = r, !.finishedAt = tmo.now]
       IN  tmo' =
             IF tmo.pc = "select"
             THEN [Returns(t, r) EXCEPT !.fn = "exited"]
             ELSE IF Len(tmo.done) < DoneCapacity
             THEN [t EXCEPT !.fn = "exited", !.done = Append(@, r)]
             ELSE [t EXCEPT !.fn = "blocked"]
    /\ UNCHANGED <<earlyVars, notTmo>>

\* Time passes; the context expires when the duration has elapsed, and a
\* caller waiting in the select then returns the 504 error (49-51).
TimeoutTick ==
    /\ tmo.pc # "none"
    /\ tmo.now < MaxTimeoutClock
    /\ LET t == [tmo EXCEPT !.now = @ + 1]
       IN  tmo' = IF tmo.pc = "select" /\ t.now >= t.d
                  THEN Returns(t, ErrGatewayTimeout)
                  ELSE t
    /\ UNCHANGED <<earlyVars, notTmo>>

\* Execute(fn, d) has made the context and the channel and started the
\* goroutine (34-43).
InitTimeout ==
    /\ EarlyIdle /\ FourIdle /\ RateIdle /\ GateIdle
    /\ tmo \in [pc : {"start"}, fn : {"running"}, d : TimeoutDurations, now : {0},
                done : {<<>>}, out : {"none"}, finishedAt : {NoFinish},
                result : {"none"}, returns : {0}, returnedAt : {NoFinish},
                raced : {FALSE}]

NextTimeout ==
    \/ EnterSelect
    \/ \E r \in FnResults : FnFinish(r)
    \/ TimeoutTick

SpecTimeout == InitTimeout /\ [][NextTimeout]_vars

FinishedInTime == tmo.finishedAt # NoFinish /\ tmo.finishedAt < tmo.d

\* Execute returns at most once, and the goroutine never waits on its send.
OnceAndNeverBlocked ==
    /\ tmo.returns <= 1
    /\ tmo.returns = 1 <=> tmo.pc = "returned"
    /\ tmo.fn # "blocked"
    /\ Len(tmo.done) <= 1

\* C32 as stated: Execute returns fn's own result when fn finishes before d
\* elapses and the 504 error otherwise; it returns once, and the goroutine
\* running fn is never left blocked on delivering its result.
C32_ResultIffInTime ==
    /\ OnceAndNeverBlocked
    /\ tmo.pc = "returned" =>
          tmo.result = IF FinishedInTime THEN tmo.out ELSE ErrGatewayTimeout

\* C32 amended: Execute returns once, fn's own result or the 504 error: fn's
\* result only when fn has finished, the 504 error only when d has elapsed;
\* unless both had happened when Execute reached its select, it returns fn's
\* result exactly when fn finished before d elapsed. The goroutine running fn
\* never waits on its send, whether Execute has returned or not.
C32_ResultOrTimeoutOnce ==
    /\ OnceAndNeverBlocked
    /\ tmo.pc = "returned" =>
          /\ tmo.result \in {tmo.out, ErrGatewayTimeout}
          /\ tmo.result = ErrGatewayTimeout => tmo.returnedAt >= tmo.d
          /\ tmo.result # ErrGatewayTimeout => tmo.finishedAt # NoFinish
                                        /\ tmo.finishedAt <= tmo.returnedAt
          /\ ~tmo.raced =>
                tmo.result = IF FinishedInTime THEN tmo.out ELSE ErrGatewayTimeout

\* Execute has returned the 504 error and fn, finishing later, has left its
\* result in the channel and exited.
C32_Witness ==
    /\ tmo.pc = "returned" /\ tmo.result = ErrGatewayTimeout /\ ~tmo.raced
    /\ tmo.fn = "exited" /\ Len(tmo.done) = 1 /\ tmo.finishedAt > tmo.returnedAt

----------------------------------------------------------------------------
(* The Router's breaker and its services                                    *)
(*                                                                          *)
(* router.New makes one resilience.CircuitBreaker and keeps it in           *)
(* Router.breaker; handleHTTP runs every service's Forward inside it.       *)
(* handleWebSocket calls WebSocketProxy.ProxyWebSocket directly. A          *)
(* WebSocket upgrade request for a service without enable_websocket is      *)
(* passed on by the HTTP route and ends in fiber's 404.                     *)

MaxDispatches == 4
MaxGateTime == 2

ServiceNames == {"a", "b"}

\* Who owns a breaker: the Router, or (in a gateway built otherwise) a service.
BreakerOwners == {"router"} \cup ServiceNames

\* A Router that keeps one breaker per service.
BreakerOfService(name) == name

\* The breaker handleHTTP uses for a service: r.breaker.
BreakerOf(name) == "router"

GateConfigs ==
    {Config([enableCB |-> TRUE, failureThreshold |-> n, resetTimeout |-> 1],
            NoRetry, [enableCache |-> FALSE, cacheTTL |-> 1]) : n \in {1, 2}}
    \cup {Config(NoBreaker, NoRetry, [enableCache |-> FALSE, cacheTTL |-> 1])}

NoRun == [pc |-> "idle", service |-> "", generation |-> 0]

\* Whether some breaker of the gateway is Open now.
SomeBreakerOpen ==
    \E o \in BreakerOwners : State(gate.breakers[o], gate.cfg, gate.now) = "open"

Dispatched(kind, name, status, upstream) ==
    [n |-> 1, op |-> kind, service |-> name, status |-> status,
     upstream |-> upstream, dialed |-> FALSE,
     open |-> gate.cfg.enableCB /\ SomeBreakerOpen,
     before |-> gate.breakers]

\* handleHTTP up to the call of Forward: the breaker admits or refuses.
HandleHTTP(r, name) ==
    /\ gate.n < MaxDispatches
    /\ gate.running[r].pc = "idle"
    /\ LET o == BreakerOf(name)
           b == IF gate.cfg.enableCB
                THEN BeforeRequest(gate.breakers[o], gate.cfg, gate.now)
                ELSE [cb |-> gate.breakers[o], err |-> "nil", generation |-> 0]
       IN  gate' =
             IF b.err # "nil"
             THEN [gate EXCEPT
                     !.n = @ + 1,
                     !.breakers[o] = b.cb,
                     !.latest = Dispatched("http", name, BreakerErrorStatus(b.err),
                                           FALSE)]
             ELSE [gate EXCEPT
                     !.n = @ + 1,
                     !.breakers[o] = b.cb,
                     !.running[r] = [pc |-> "forward", service |-> name,
                                     generation |-> b.generation],
                     !.latest = Dispatched("http", name, 0, TRUE)]
    /\ UNCHANGED <<earlyVars, notGate>>

\* Forward returns, nil or an error, and the breaker records it.
ForwardReturns(r, success) ==
    /\ gate.running[r].pc = "forward"
    /\ LET name == gate.running[r].service
           o == BreakerOf(name)
       IN  gate' =
             [gate EXCEPT
                !.breakers[o] =
                    IF gate.cfg.enableCB
                    THEN AfterRequest(@, gate.cfg, gate.running[r].generation,
                                      success, gate.now)
                    ELSE @,
                !.running[r] = NoRun,
                !.failed = IF success THEN @ ELSE @ \cup {name},
                !.latest = Dispatched("forwarded", name,
                                      IF success THEN StatusOK ELSE StatusBadGateway,
                                      FALSE)]
    /\ UNCHANGED <<earlyVars, notGate>>

\* A WebSocket upgrade request: the service's WebSocket route calls
\* handleWebSocket, which dials the upstream; without that route the request
\* falls through the HTTP route.
HandleWebSocketRequest(name, dialed) ==
    /\ gate.n < MaxDispatches
    /\ gate' =
         [gate EXCEPT
            !.n = @ + 1,
            !.latest =
               IF gate.enableWebSocket[name]
               THEN [Dispatched("ws", name, 0, TRUE) EXCEPT !.dialed = dialed]
               ELSE Dispatched("ws", name, StatusNotFound, FALSE)]
    /\ UNCHANGED <<earlyVars, notGate>>

GateTick ==
    /\ gate.n > 0
    /\ gate.now < MaxGateTime
    /\ gate' = [gate EXCEPT !.now = @ + 1, !.latest = NoGate]
    /\ UNCHANGED <<earlyVars, notGate>>

\* router.New and RegisterService for two services.
InitGate ==
    /\ EarlyIdle /\ FourIdle /\ RateIdle /\ TimeoutIdle
    /\ gate \in [n : {0}, cfg : GateConfigs, now : {0},
                 enableWebSocket : [ServiceNames -> BOOLEAN],
                 breakers : {[o \in BreakerOwners |-> NewCircuitBreaker]},
                 running : {[r \in Runners |-> NoRun]},
                 failed : {{}},
                 latest : {NoGate}]

NextGate ==
    \/ \E r \in Runners, name \in ServiceNames : HandleHTTP(r, name)
    \/ \E r \in Runners, success \in BOOLEAN : ForwardReturns(r, success)
    \/ \E name \in ServiceNames, dialed \in BOOLEAN :
          HandleWebSocketRequest(name, dialed)
    \/ GateTick

SpecGate == InitGate /\ [][NextGate]_vars

\* C33: the gateway has a single circuit breaker shared by all services: once
\* failures of any one service's upstream have opened it, an HTTP request to
\* any registered service is refused with 503 while it is Open.
C33_OneBreakerForAllServices ==
    /\ \A name \in ServiceNames : gate.breakers[name] = NewCircuitBreaker
    /\ (gate.latest.n # 0 /\ gate.latest.op = "http" /\ gate.latest.open) =>
          /\ gate.latest.status = StatusServiceUnavailable
          /\ ~gate.latest.upstream
          /\ gate.breakers = gate.latest.before

\* Only the upstream of service a has failed, and a request to service b has
\* been refused with 503.
C33_Witness ==
    /\ gate.latest.n # 0 /\ gate.latest.op = "http" /\ gate.latest.open
    /\ gate.failed = {"a"} /\ gate.latest.service = "b"
    /\ gate.latest.status = StatusServiceUnavailable

\* C34: WebSocket dispatch passes through the circuit breaker like HTTP
\* dispatch: while the breaker is Open a WebSocket upgrade request causes no
\* upstream dial, and a failed upstream dial is recorded by the breaker as a
\* failure.
C34_WebSocketThroughBreaker ==
    (/\ gate.latest.n # 0 /\ gate.latest.op = "ws"
     /\ gate.cfg.enableCB /\ gate.enableWebSocket[gate.latest.service]) =>
        /\ gate.latest.open => ~gate.latest.upstream
        /\ (gate.latest.upstream /\ ~gate.latest.dialed) =>
              gate.breakers["router"].counts.totalFailures
                 = gate.latest.before["router"].counts.totalFailures + 1

\* A WebSocket upgrade request leaves every breaker as it was, and is dialled
\* whenever the service has its WebSocket route.
WebSocketBypassesBreaker ==
    (gate.latest.n # 0 /\ gate.latest.op = "ws") =>
        /\ gate.breakers = gate.latest.before
        /\ gate.latest.upstream = gate.enableWebSocket[gate.latest.service]

----------------------------------------------------------------------------
(* The cache of HTTPProxy.Forward and the request's headers                 *)
(*                                                                          *)
(* Forward looks a GET up under getCacheKey(path, query) and sends the      *)
(* cached bytes with c.Send: no status is set and no header is copied.      *)
(* Requests here differ in path, query and Authorization; history keeps,    *)
(* per path and query, the latest upstream 200 to a GET and who asked.      *)

SharedPaths == {"/a/x"}
SharedQueries == {"", "q=1"}
Callers == {"alice", "bob"}

SharedKinds ==
    {k \in [method : {"GET", "POST"}, path : SharedPaths, query : SharedQueries,
            upgrade : {"", "websocket"}, connection : {""},
            authorization : Callers] :
        k.upgrade # "" => k.method = "GET"}

SharedKeys == {getCacheKey(path, query) : path \in SharedPaths, query \in SharedQueries}

NoFill == [by |-> "", body |-> "nil"]

\* What the origin does to a call that reaches it: a 200 with one of the
\* bodies, a 500, or a transport error.
SharedOutcomes ==
    {o \in ForwardOutcomes :
        \/ o.t = "transport"
        \/ o.t = "resp" /\ o.status \in {StatusOK, StatusInternalServerError}}

\* The response headers the client gets: the upstream's when Forward relays a
\* response (403-409), none of them when it answers from the cache (326-329).
ResponseHeaders(hit, wrote) ==
    IF wrote /\ ~hit THEN "upstream" ELSE "none"

\* One call of HTTPProxy.Forward, from its entry to its return.
ForwardShared(k, o) ==
    /\ nfwd < MaxForwards
    /\ nfwd' = nfwd + 1
    /\ LET e == ForwardEnter(cfg, items, k, now)
           f == ForwardFinish(cfg, items, k, o, now)
           relayed200 == /\ ~e.done /\ ForwardBuild(o) = 0 /\ o.t = "resp"
                         /\ o.status = StatusOK /\ k.method = "GET"
           filled == IF relayed200
                     THEN [fwd.filled EXCEPT ![<<k.path, k.query>>] =
                             [by |-> k.authorization, body |-> o.body]]
                     ELSE fwd.filled
       IN
       IF e.done
       THEN /\ fwd' = [kind |-> k, outcome |-> NoReply, err |-> e.err,
                       status |-> e.status, body |-> e.body, wrote |-> e.wrote,
                       hit |-> e.hit, sent |-> FALSE, before |-> items,
                       headers |-> ResponseHeaders(e.hit, e.wrote),
                       filled |-> filled]
            /\ UNCHANGED items
       ELSE IF ForwardBuild(o) # 0
       THEN /\ fwd' = [kind |-> k, outcome |-> o, err |-> ForwardBuild(o),
                       status |-> 0, body |-> "nil", wrote |-> FALSE,
                       hit |-> FALSE, sent |-> FALSE, before |-> items,
                       headers |-> "none", filled |-> filled]
            /\ UNCHANGED items
       ELSE /\ fwd' = [kind |-> k, outcome |-> o, err |-> f.err,
                       status |-> f.status, body |-> f.body, wrote |-> f.wrote,
                       hit |-> FALSE, sent |-> TRUE, before |-> items,
                       headers |-> ResponseHeaders(FALSE, f.wrote),
                       filled |-> filled]
            /\ items' = f.items
    /\ UNCHANGED <<cfg, now, fwdRest, allButFwd>>

InitShared ==
    /\ cfg \in {Config(NoBreaker, NoRetry, c) : c \in CacheConfigs}
    /\ now = 0
    /\ items = [k \in SharedKeys |-> NoItem]
    /\ lim = [reqs |-> 0, inflight |-> 0]
    /\ cb = NewCircuitBreaker
    /\ req = [s \in Slots |-> IdleReq]
    /\ nreq = 0
    /\ last = NoLast
    /\ streak = 0
    /\ seen200 = [k \in CacheKeys |-> NoPrior]
    /\ origin = [k \in CacheKeys |-> [method |-> "", status |-> 0]]
    /\ fwd = [kind |-> NoKind, outcome |-> NoReply, err |-> 0, status |-> 0,
              body |-> "nil", wrote |-> FALSE, hit |-> FALSE, sent |-> FALSE,
              before |-> items, headers |-> "none",
              filled |-> [pq \in SharedPaths \X SharedQueries |-> NoFill]]
    /\ nfwd = 0
    /\ LateIdle
    /\ PathIdle /\ CacheIdle /\ WSIdle /\ HeaderIdle /\ TunnelIdle /\ BreakerIdle

NextShared ==
    \/ \E k \in SharedKinds, o \in SharedOutcomes : ForwardShared(k, o)
    \/ ForwardTick

SpecShared == InitShared /\ [][NextShared]_vars

\* The latest upstream 200 to a GET with the path and query of the latest call.
FilledForLatest == fwd.filled[<<fwd.kind.path, fwd.kind.query>>]

\* C39: the body served on a cache hit depends only on the request path and
\* raw query: a GET is answered with the body cached for its path and query,
\* whatever its Authorization and whoever's request filled the entry, with
\* status 200 and without the upstream's response headers.
C39_HitDependsOnPathAndQuery ==
    /\ (nfwd >= 1 /\ fwd.hit) =>
          /\ fwd.body = FilledForLatest.body
          /\ fwd.err = 0 /\ fwd.status = StatusOK
          /\ fwd.headers = "none"
    /\ (/\ nfwd >= 1 /\ cfg.enableCache
        /\ fwd.kind.method = "GET" /\ fwd.kind.upgrade = ""
        /\ Get(fwd.before, getCacheKey(fwd.kind.path, fwd.kind.query), now).found) =>
          fwd.hit

\* Bob's GET has been answered with the body that alice's request put in the
\* cache, while the same path with another query has another body cached.
C39_Witness ==
    /\ nfwd >= 1 /\ fwd.hit /\ fwd.kind.authorization = "bob"
    /\ FilledForLatest.by = "alice" /\ fwd.body = FilledForLatest.body
    /\ \E q \in SharedQueries :
          /\ fwd.filled[<<fwd.kind.path, q>>].body \notin {"nil", fwd.body}

====
